---- MODULE Spec2Model ----
(***************************************************************************)
(* The block chain of src/src/data.py: immutable blocks, the in-memory     *)
(* store (MemoryDictionary), the chain coordinator (BlockChain) with its   *)
(* lock, and the threads that call BlockChain.add concurrently.            *)
(*                                                                         *)
(* Hashes.  SHA-256 is modelled as a collision-free function: the digest   *)
(* of a value is the value itself under the tag "sha256".  A block hash is *)
(* the digest of all six fields of the block (pickle.dumps(block)), a file *)
(* hash is the digest of the concatenated chunk bytes.  Python's None is   *)
(* the empty tuple.                                                        *)
(***************************************************************************)
EXTENDS Integers, Sequences, FiniteSets, TLC

\* ------------------------------------------------------------------ bounds
NumThreads == 2     \* threads that call the chain concurrently
MaxCalls == 3       \* add calls a run of the free specification starts
MaxFrames == 3      \* frames the clients of a run send to the server

Threads == 1..NumThreads

None == <<>>

\* ------------------------------------------------------------------ hashes
\* hashlib.sha256 over a byte string: collision free.
Sha256(bytes) == <<"sha256", bytes>>

RECURSIVE Concat(_)
\* sha256.update(chunk) for each chunk in turn digests the concatenation.
Concat(chunks) ==
    IF chunks = <<>> THEN <<>> ELSE Head(chunks) \o Concat(Tail(chunks))

\* ------------------------------------------------------------------ blocks
\* Block.__init__: hashcode, index_all, ordinal, chunk, filename, hash_previous.
Block(hashcode, index_all, ordinal, chunk, filename, hash_previous) ==
    [index_all |-> index_all, ordinal |-> ordinal, chunk |-> chunk,
     filename |-> filename, hash_previous |-> hash_previous,
     hash |-> hashcode]

\* Block.set_previous: the same block with the given hash_previous.
set_previous(hash_previous, block) ==
    Block(block.hash, block.index_all, block.ordinal, block.chunk,
          block.filename, hash_previous)

\* An equality that looks at every field.
EqAllFields(a, b) == a = b

\* Block.__eq__: every field but hash_previous.
Eq(a, b) ==
    /\ a.hash = b.hash
    /\ a.index_all = b.index_all
    /\ a.ordinal = b.ordinal
    /\ a.chunk = b.chunk
    /\ a.filename = b.filename

\* Block.__hash__: hash(frozenset((hash, index_all, ordinal, chunk, filename))).
\* The frozenset keeps equal values once; each value goes with its type, and
\* hash() of equal frozensets is equal.
block_hash(block) ==
    <<"hash", {<<"sha256 str", block.hash>>, <<"int", block.index_all>>,
               <<"int", block.ordinal>>, <<"bytes", block.chunk>>,
               <<"str", block.filename>>}>>

\* hash_block: sha256 of the pickled block, hash_previous included.
hash_block(block) ==
    Sha256(<<block.hash, block.index_all, block.ordinal, block.chunk,
             block.filename, block.hash_previous>>)

\* load_file: the chunks read from the file become one block each, all with
\* the hash of the whole content, the number of chunks and the file's name.
load_file(file) ==
    [i \in 1..Len(file.chunks) |->
        Block(Sha256(Concat(file.chunks)), Len(file.chunks), i - 1,
              file.chunks[i], file.filename, None)]

\* ------------------------------------------------------------------ inputs
ChunkA == <<10>>
ChunkB == <<20>>

FileAB   == [chunks |-> <<ChunkA, ChunkB>>, filename |-> "ab.txt"]
FileCopy == [chunks |-> <<ChunkA, ChunkB>>, filename |-> "copy.txt"]
FileB    == [chunks |-> <<ChunkB>>, filename |-> "b.txt"]
FileA    == [chunks |-> <<ChunkA>>, filename |-> "a.txt"]

Range(s) == {s[i] : i \in DOMAIN s}

\* Files that differ in content, as the workers of the scripted specification
\* submit them.
WorkFiles == {FileAB, FileB, FileA}

\* A block a client made up: it claims to be the only block of FileAB.
Forged == Block(Sha256(Concat(FileAB.chunks)), 1, 0, ChunkA, "ab.txt", None)

\* The blocks a caller of the free specification may submit.
Universe ==
    Range(load_file(FileAB)) \cup Range(load_file(FileCopy))
        \cup Range(load_file(FileB)) \cup {Forged}

\* File hashes a reader asks for: those of the inputs and one of no input.
AbsentHash == Sha256(<<30>>)
HashArgs == {b.hash : b \in Universe} \cup {AbsentHash}

\* ------------------------------------------------------------------- store
\* MemoryDictionary.get: None for a falsy hashcode or a missing key.  The
\* result is <<>> for None and <<block>> otherwise.
chain_get(m, hashcode) ==
    IF hashcode # None /\ hashcode \in DOMAIN m THEN <<m[hashcode]>> ELSE <<>>

\* The map m with block stored under key.
Stored(m, key, block) ==
    [k \in DOMAIN m \cup {key} |-> IF k = key THEN block ELSE m[k]]

\* A store write that is lost: the hash is returned, the map is not written.
chain_add_lost(m, block) ==
    [hashcode |-> hash_block(block), map |-> m]

\* A store that files the block under its file hash, as a store keyed by
\* file would, and returns the block hash.
chain_add_by_file_hash(m, block) ==
    [hashcode |-> hash_block(block), map |-> Stored(m, block.hash, block)]

\* MemoryDictionary.add: self.__map[hash_block(block)] = block; the hash is
\* returned.
chain_add(m, block) ==
    [hashcode |-> hash_block(block),
     map |-> Stored(m, hash_block(block), block)]

\* MemoryDictionary.size: len(self.__map).
chain_size(m) == Cardinality(DOMAIN m)

\* FileDictionary.__get_path: the directory of a block file is hashcode[:2],
\* which blocks share; here the blocks of ordinal 0 share one and the others
\* another.
hash_dir(hashcode) == IF hashcode[2][3] = 0 THEN "4c" ELSE "d3"

\* os.listdir(self.root): the directories of the block files and the head
\* file.
listdir_root(dirs, head) == dirs \cup (IF head = None THEN {} ELSE {"head"})

\* FileDictionary.size: the names in the root directory for which
\* os.path.isfile(name) holds, and name is looked up in the working
\* directory.
file_size(dirs, head, cwd) ==
    Cardinality({name \in listdir_root(dirs, head) : name \in cwd})

\* BlockChain.size of a chain made with in_memory.
store_size(in_memory, files, dirs, head, cwd) ==
    IF in_memory THEN chain_size(files) ELSE file_size(dirs, head, cwd)

\* ------------------------------------------------------------------ readers
RECURSIVE CollectFrom(_, _, _, _)
\* The loop of BlockChain.__get_blocks_for_hash, entered with `head` the hash to
\* look up next and `blocks` the list collected so far.
CollectFrom(m, head, hashcode, blocks) ==
    IF chain_get(m, head) = <<>> THEN blocks
    ELSE LET block == chain_get(m, head)[1]
             found == IF block.hash = hashcode THEN Append(blocks, block)
                      ELSE blocks
         IN  IF hash_block(block) # head THEN blocks
             ELSE IF block.hash = hashcode /\ block.index_all = Len(found)
                  THEN found
                  ELSE CollectFrom(m, block.hash_previous, hashcode, found)

\* BlockChain.__get_blocks_for_hash: the blocks of the file, newest first.
get_blocks_for_hash(h, m, hashcode) ==
    IF h = None THEN <<>> ELSE CollectFrom(m, h, hashcode, <<>>)

RECURSIVE InsertByOrdinal(_, _)
\* One step of a stable sort: block goes behind every block of sorted whose
\* ordinal is not larger.
InsertByOrdinal(sorted, block) ==
    IF sorted = <<>> THEN <<block>>
    ELSE IF Head(sorted).ordinal <= block.ordinal
         THEN <<Head(sorted)>> \o InsertByOrdinal(Tail(sorted), block)
         ELSE <<block>> \o sorted

RECURSIVE SortByOrdinal(_)
\* list.sort(key=lambda x: x.ordinal): stable, ascending.
SortByOrdinal(blocks) ==
    IF blocks = <<>> THEN <<>>
    ELSE InsertByOrdinal(SortByOrdinal(SubSeq(blocks, 1, Len(blocks) - 1)),
                         blocks[Len(blocks)])

Chunks(blocks) == [i \in DOMAIN blocks |-> blocks[i].chunk]

\* What generate_file_hash gives when it raises BlockSectionInconsistentError.
BlockSectionInconsistentError == <<"BlockSectionInconsistentError">>

\* A generate_file_hash that digests the chunks in the order of the list.
generate_file_hash_unsorted(blocks) ==
    IF blocks = <<>> THEN BlockSectionInconsistentError
    ELSE IF Cardinality({blocks[i].ordinal : i \in DOMAIN blocks}) # Len(blocks)
    THEN BlockSectionInconsistentError
    ELSE IF \E i \in DOMAIN blocks :
                \/ blocks[1].hash # blocks[i].hash
                \/ blocks[1].index_all # blocks[i].index_all
                \/ blocks[1].filename # blocks[i].filename
    THEN BlockSectionInconsistentError
    ELSE Sha256(Concat(Chunks(blocks)))

\* generate_file_hash: the hash of the chunks in ordinal order, or the error
\* for no blocks, a repeated ordinal, or differing hash, index_all or filename.
generate_file_hash(blocks) ==
    IF blocks = <<>> THEN BlockSectionInconsistentError
    ELSE IF Cardinality({blocks[i].ordinal : i \in DOMAIN blocks}) # Len(blocks)
    THEN BlockSectionInconsistentError
    ELSE IF \E i \in DOMAIN blocks :
                \/ blocks[1].hash # blocks[i].hash
                \/ blocks[1].index_all # blocks[i].index_all
                \/ blocks[1].filename # blocks[i].filename
    THEN BlockSectionInconsistentError
    ELSE Sha256(Concat(Chunks(SortByOrdinal(blocks))))

\* A check_hash that gives the count 0 whenever the file is not valid.
check_hash_zero(h, m, hashcode) ==
    LET blocks == get_blocks_for_hash(h, m, hashcode)
    IN  IF generate_file_hash(blocks) = hashcode
        THEN <<TRUE, Len(blocks)>> ELSE <<FALSE, 0>>

\* BlockChain.check_hash: (generate_file_hash(blocks) == hashcode, len(blocks)),
\* and (False, 0) when generate_file_hash raises.
check_hash(h, m, hashcode) ==
    LET blocks == get_blocks_for_hash(h, m, hashcode)
    IN  IF generate_file_hash(blocks) = BlockSectionInconsistentError
        THEN <<FALSE, 0>>
        ELSE <<generate_file_hash(blocks) = hashcode, Len(blocks)>>

\* The lines of BlockChain.check_hash after the blocks are collected.
check_hash_blocks(blocks, hashcode) ==
    IF generate_file_hash(blocks) = BlockSectionInconsistentError
    THEN <<FALSE, 0>>
    ELSE <<generate_file_hash(blocks) = hashcode, Len(blocks)>>

RECURSIVE CheckWalkTrusting(_, _, _)
\* A walk that takes every block it reads for the block that was stored.
CheckWalkTrusting(m, head, file_hashes) ==
    IF chain_get(m, head) = <<>>
    THEN [file_hashes |-> file_hashes, ok |-> head = None]
    ELSE CheckWalkTrusting(m, chain_get(m, head)[1].hash_previous,
                           file_hashes \cup {chain_get(m, head)[1].hash})

RECURSIVE CheckWalk(_, _, _)
\* The first loop of BlockChain.check with the lines that follow it: the walk
\* fails on a block that does not hash to the key it was read under and on a
\* key that is missing; otherwise it yields the file hashes it met.
CheckWalk(m, head, file_hashes) ==
    IF chain_get(m, head) = <<>>
    THEN [file_hashes |-> file_hashes, ok |-> head = None]
    ELSE LET block == chain_get(m, head)[1]
         IN  IF hash_block(block) # head
             THEN [file_hashes |-> file_hashes, ok |-> FALSE]
             ELSE CheckWalk(m, block.hash_previous,
                            file_hashes \cup {block.hash})

\* A check that reports the chain valid without asking check_hash.
check_no_files(h, m) ==
    IF h = None THEN <<TRUE, 0>>
    ELSE IF ~CheckWalk(m, h, {}).ok THEN <<FALSE, 0>>
         ELSE <<TRUE, Cardinality(CheckWalk(m, h, {}).file_hashes)>>

\* BlockChain.check: (every file of the chain passes check_hash, the number of
\* file hashes), or (False, 0) when the walk fails.
check(h, m) ==
    IF h = None THEN <<TRUE, 0>>
    ELSE LET walk == CheckWalk(m, h, {})
         IN  IF ~walk.ok THEN <<FALSE, 0>>
             ELSE <<\A hashcode \in walk.file_hashes : check_hash(h, m, hashcode)[1],
                    Cardinality(walk.file_hashes)>>

\* BlockChain.get: the collected blocks sorted by ordinal.
get(h, m, hashcode) == SortByOrdinal(get_blocks_for_hash(h, m, hashcode))

\* BlockChain.size: delegates to the store.
size(m) == chain_size(m)

RECURSIVE WalkFindsEqual(_, _, _)
\* The loop of BlockChain.add: some block on the way from hashcode along
\* hash_previous equals new_block.
WalkFindsEqual(m, hashcode, new_block) ==
    IF chain_get(m, hashcode) = <<>> THEN FALSE
    ELSE LET block == chain_get(m, hashcode)[1]
         IN  \/ Eq(block, new_block)
             \/ WalkFindsEqual(m, block.hash_previous, new_block)

\* A duplicate check that looks at the newest block only.
IsDuplicateHeadOnly(m, new_block) ==
    /\ chain_get(m, new_block.hash_previous) # <<>>
    /\ Eq(chain_get(m, new_block.hash_previous)[1], new_block)

\* The duplicate check of BlockChain.add, started at the head that was read
\* into new_block.hash_previous.
IsDuplicate(m, new_block) ==
    WalkFindsEqual(m, new_block.hash_previous, new_block)

RECURSIVE Reach(_, _)
\* The keys of the blocks met when walking from hashcode along hash_previous.
Reach(m, hashcode) ==
    IF chain_get(m, hashcode) = <<>> THEN {}
    ELSE {hashcode} \cup Reach(m, chain_get(m, hashcode)[1].hash_previous)

\* ---------------------------------------------------------------- packages
\* PackageMode: the first bit of the header byte.
SERVER_MODE == 128
CLIENT_MODE == 0

\* PackageId, as package.py enumerates it.
LOG_TEXT == 0
SEND_FILE == 1
HASH_CHECK == 2
FILE_CHECK == 3
GET_FILE == 4
PackageId == {LOG_TEXT, SEND_FILE, HASH_CHECK, FILE_CHECK, GET_FILE}

\* The id web.py names PackageId.FULL_CHECK; package.py gives it no value.
FULL_CHECK == 5

\* An id that is in no enumeration.
UnknownId == FULL_CHECK + 1

\* pickle.dumps and pickle.loads.
pickle_dumps(object) == <<"pickle", object>>
pickle_loads(payload) == payload[2]

\* Package.__init__
Package(package_mode, package_id, payload) ==
    [payload |-> payload, package_mode |-> package_mode,
     package_id |-> package_id]

\* A header byte that carries the id only.
raw_without_mode(package) == <<package.package_id, package.payload>>

\* Package.raw: the header byte, package_mode | package_id, and the payload.
raw(package) == <<package.package_mode + package.package_id, package.payload>>

\* The bytes of a frame with the given header byte and pickled object.
Frame(header, object) == <<header, pickle_dumps(object)>>

\* PackageFactory.packages_ids
packages_ids == PackageId

PackageCreationError == [raised |-> "PackageCreationError"]

\* PackageFactory.create_from_bytes: 0x80 & header is the mode, 0x7F & header
\* the id; empty bytes and an id outside packages_ids raise.
create_from_bytes(data) ==
    IF data = <<>> THEN PackageCreationError
    ELSE LET header == data[1]
             package_mode == (header \div 128) * 128
             package_id == header % 128
         IN  IF package_id \notin packages_ids THEN PackageCreationError
             ELSE [package |-> Package(package_mode, package_id, data[2]),
                   raised |-> "none"]

\* PackageFactory.create_from_object of a factory with the given mode, for an
\* id of packages_ids.
create_from_object(package_mode, package_id, data) ==
    Package(package_mode, package_id, pickle_dumps(data))

\* LogResult(log_level, message)
LogResult(log_level, message) == [log_level |-> log_level, message |-> message]

\* PackageFactory.create_log_package of the server's factory.
create_log_package(log_level, message) ==
    create_from_object(CLIENT_MODE, LOG_TEXT, LogResult(log_level, message))

\* A handler that calls the installed handler without looking at the mode of
\* the package.
handle_any_mode(package_mode, handlers, byte_buffer) ==
    LET made == create_from_bytes(byte_buffer)
    IN  IF made.raised # "none"
        THEN [raised |-> made.raised, invoked |-> <<>>]
        ELSE IF made.package.package_id \notin handlers
        THEN [raised |-> "PackageHandleError", invoked |-> <<>>]
        ELSE [raised |-> "none", invoked |-> <<made.package.package_id>>]

\* PackageHandler.handle up to the call of the installed handler: what it
\* raises, and the id whose handler it calls.
handle(package_mode, handlers, byte_buffer) ==
    LET made == create_from_bytes(byte_buffer)
    IN  IF made.raised # "none"
        THEN [raised |-> made.raised, invoked |-> <<>>]
        ELSE IF made.package.package_mode # package_mode
        THEN [raised |-> "PackageHandleError", invoked |-> <<>>]
        ELSE IF made.package.package_id \notin handlers
        THEN [raised |-> "PackageHandleError", invoked |-> <<>>]
        ELSE [raised |-> "none", invoked |-> <<made.package.package_id>>]

\* The ids Server.__init__ installs handlers for.
ServerHandlers == {SEND_FILE, HASH_CHECK, FULL_CHECK, GET_FILE}

\* ------------------------------------------------------------------ frames
\* MAX_PACKAGE_SIZE: the bytes of the length prefix.
MAX_PACKAGE_SIZE == 2

\* The largest size that size.to_bytes(MAX_PACKAGE_SIZE, "big") can hold.
MaxSize == 256 ^ MAX_PACKAGE_SIZE - 1

\* size.to_bytes(MAX_PACKAGE_SIZE, byteorder="big") for a size it can hold.
to_bytes(size_) == <<size_ \div 256, size_ % 256>>

\* int.from_bytes(buf, byteorder="big") of the one or two bytes recv gave.
from_bytes(buf) == IF Len(buf) = 1 THEN buf[1] ELSE 256 * buf[1] + buf[2]

\* A send that writes the prefix of a package it cannot frame and reports
\* nothing.
send_prefix_only(raw_bytes, written) ==
    IF Len(raw_bytes) > MaxSize
    THEN [written |-> written \o <<255, 255>>, logged |-> 0]
    ELSE [written |-> written \o to_bytes(Len(raw_bytes)) \o raw_bytes,
          logged |-> 0]

\* send: what the socket has been given once send returns, and the errors
\* it logged.  to_bytes raises OverflowError before sendall is called.
send(raw_bytes, written) ==
    IF Len(raw_bytes) > MaxSize
    THEN [written |-> written, logged |-> 1]
    ELSE [written |-> written \o to_bytes(Len(raw_bytes)) \o raw_bytes,
          logged |-> 0]

\* ---------------------------------------------------------- server handlers
\* A handler that reports every file as not stored.
handle_check_hash_absent(h, m, hashcode) ==
    <<create_log_package("WARNING", <<"is not stored", hashcode>>)>>

\* Server.handle_check_hash
handle_check_hash(h, m, hashcode) ==
    LET exists == check_hash(h, m, hashcode)[1]
        num == check_hash(h, m, hashcode)[2]
    IN  IF exists
        THEN <<create_log_package("INFO", <<"is stored", hashcode, num>>)>>
        ELSE <<create_log_package("WARNING", <<"is not stored", hashcode>>)>>

\* Server.handle_request_file
handle_request_file(h, m, hashcode) ==
    LET blocks == get(h, m, hashcode)
    IN  IF blocks = <<>>
        THEN <<create_log_package("WARNING", <<"No Blocks found", hashcode>>)>>
        ELSE [i \in DOMAIN blocks |->
                 create_from_object(CLIENT_MODE, SEND_FILE,
                     Block(blocks[1].hash, blocks[1].index_all,
                           blocks[i].ordinal, blocks[i].chunk,
                           blocks[1].filename, None))]

\* Server.handle_full_check
handle_full_check(h, m) ==
    LET valid == check(h, m)[1]
        num_files == check(h, m)[2]
    IN  IF valid
        THEN <<create_log_package("INFO", <<"complete and consistent", num_files>>)>>
        ELSE IF num_files = 0
        THEN <<create_log_package("ERROR", <<"inconsistent state">>)>>
        ELSE <<create_log_package("WARNING", <<"not complete", num_files>>)>>

\* A handler that answers nothing once the block is added.
handle_add_block_silent(h, m, block, outcome) == <<>>

\* A handler that tells the client of a duplicate block.
handle_add_block_warns(h, m, block, outcome) ==
    IF outcome = "DuplicateBlockError"
    THEN <<create_log_package("WARNING", <<"Block already exists!">>)>>
    ELSE IF check_hash(h, m, block.hash)[1]
         THEN <<create_log_package("INFO",
                    <<"were added", check_hash(h, m, block.hash)[2],
                      block.filename>>)>>
         ELSE <<>>

\* Server.handle_add_block behind the call of add: after DuplicateBlockError
\* nothing is sent back; after an add that returned, check_hash of the block's
\* file decides between one INFO package and nothing.
handle_add_block(h, m, block, outcome) ==
    IF outcome = "DuplicateBlockError" THEN <<>>
    ELSE IF check_hash(h, m, block.hash)[1]
         THEN <<create_log_package("INFO",
                    <<"were added", check_hash(h, m, block.hash)[2],
                      block.filename>>)>>
         ELSE <<>>

\* ------------------------------------------------------------------- state
VARIABLES
    head,        \* MemoryDictionary.__head
    map,         \* MemoryDictionary.__map: block hash -> block
    lock,        \* BlockChain.__lock: the set of threads inside `with self.__lock`
    pc,          \* where each thread stands in BlockChain.add
    new_block,   \* add's new_block of each thread
    hashcode,    \* add's hashcode of each thread
    res,         \* how the latest add of each thread ended
    todo,        \* the blocks a scripted worker has still to submit
    abortOnDup,  \* a scripted worker gives up at its first DuplicateBlockError
    calls,       \* add calls started by the free callers
    obs,         \* the latest read and its result, while the store is unchanged
    returned,    \* history: the hashes returned by add so far
    added,       \* history: the blocks, as submitted, whose add updated head
    seen,        \* history: `returned` as it was when the thread's add began
    arg,         \* history: the block the thread's add was called with
    head0,       \* history: the head the thread's add read
    size0,       \* history: size() when the thread's add took the lock
    script,      \* history: the blocks each scripted worker was given
    rd,          \* the reading thread: where it stands in check, check_hash or get
    lin,         \* history: what the read would give at each instant since it began
    stopped,     \* Server.stopped: the shutdown event
    dialed,      \* Server.stop has connected to the listening socket
    listener,    \* Server.sock: the listening socket
    apc,         \* where the server thread stands in Server.__start
    cur,         \* __start's sock: the connection accepted last
    clients,     \* Server.clients: the accepted connections, in order
    idx,         \* the place in clients the shutdown loop has reached
    backlog,     \* connections that wait to be accepted
    peer,        \* the far end of each connection
    sock,        \* the server's socket of each connection
    wpc,         \* where each connection's worker stands in __handle_client
    inq,         \* frames sent to the server that its worker has not read yet
    frames,      \* frames sent so far
    last,        \* history: the frame each worker handled last and what came of it
    before,      \* history: `last` as it was before the latest frame
    trip,        \* a package on its way from an object to bytes and back
    cmp,         \* two blocks and what comparing and hashing them gives
    tampered,    \* what was done to the store behind the chain's back
    disk,        \* a chain of its own: its store, the directories around it, its calls
    wire,        \* one direction of a connection: the bytes in flight and its two ends
    section,     \* a list of blocks and what generate_file_hash makes of it
    reply,       \* read's out_packages each worker has still to send
    outlog,      \* history: what each worker wrote, with its request's number
    sentlog,     \* history: the frames each client sent, in order
    cpc,         \* where each client's reading thread stands in Client.__connect
    cread,       \* how many packages of outlog the client's thread has read
    local_files, \* the files in each client's working directory
    plan         \* the frames a client's calls have still to send

vars == <<head, map, lock, pc, new_block, hashcode, res, todo, abortOnDup,
          calls, obs, returned, added, seen, arg, head0, size0, script,
          rd, lin, stopped, dialed, listener, apc, cur, clients, idx, backlog,
          peer, sock, wpc, inq, frames, last, before, trip, cmp,
          tampered, disk, wire, section, reply, outlog, sentlog, cpc, cread,
          local_files, plan>>

rdVars == <<rd, lin>>

srvVars == <<stopped, dialed, listener, apc, cur, clients, idx, backlog, peer,
             sock, wpc, inq, frames, last, before>>

chainVars == <<head, map, lock, pc, new_block, hashcode, res, todo, abortOnDup,
               calls, obs, returned, added, seen, arg, head0, size0, script>>

\* The replies of the server and the client's side of each connection.
cliVars == <<reply, outlog, sentlog, cpc, cread, local_files, plan>>

\* The state of the parts that run without a server.
pureVars == <<trip, cmp, tampered, disk, wire, section>>

\* The state outside the chain, its reader and the server's sockets.
extVars == <<pureVars, cliVars>>

\* A thread that is not inside add holds this in new_block.
NoBlock == Block(None, 0, 0, <<>>, "", None)
NoObs == [res |-> None, arg |-> None, op |-> "none"]

\* The reading thread before it calls anything.
NoRead ==
    [hashcode |-> None, head |-> None, blocks |-> <<>>, file_hashes |-> {},
     pc |-> "idle", res |-> None, todo |-> {}, cur |-> None,
     op |-> "none", chain_valid |-> TRUE]

\* What a read gives when all of it runs on one state (h, m) of the chain.
AtOnce(op, hash_arg, h, m) ==
    IF op = "check" THEN check(h, m)
    ELSE IF op = "check_hash" THEN check_hash(h, m, hash_arg)
    ELSE get(h, m, hash_arg)

\* lin once the chain has become (h, m): while a read is under way, what it
\* would give on (h, m) is one more instant.
Instants(h, m) ==
    IF rd.pc \in {"idle", "done"} THEN lin
    ELSE lin \cup {AtOnce(rd.op, rd.hashcode, h, m)}

\* The connection Server.stop makes to the listening socket; the others are
\* the clients' connections, each served by the thread of its number.
Dial == NumThreads + 1
Conns == 1..Dial

\* A worker that has handled no frame yet.
NoHandle ==
    [raised |-> "none", invoked |-> <<>>, outcome |-> "none", frame |-> <<>>,
     ret |-> <<>>]

\* The server after Server.__init__ and start(): the socket is bound, the
\* server thread is about to listen.
InitServer ==
    /\ stopped = FALSE
    /\ dialed = FALSE
    /\ listener = "bound"
    /\ apc = "start"
    /\ cur = <<>>
    /\ clients = <<>>
    /\ idx = 0
    /\ backlog = <<>>
    /\ peer = [c \in Conns |-> "none"]
    /\ sock = [c \in Conns |-> "none"]
    /\ wpc = [c \in Threads |-> "none"]
    /\ inq = [c \in Threads |-> <<>>]
    /\ frames = 0
    /\ last = [c \in Threads |-> NoHandle]
    /\ before = [c \in Threads |-> NoHandle]
    /\ reply = [c \in Threads |-> <<>>]
    /\ outlog = [c \in Threads |-> <<>>]
    /\ sentlog = [c \in Threads |-> <<>>]
    /\ cpc = [c \in Threads |-> "none"]
    /\ cread = [c \in Threads |-> 0]
    /\ local_files = [c \in Threads |-> [f \in {} |-> <<>>]]

InitChain ==
    /\ head = None
    /\ map = [k \in {} |-> NoBlock]
    /\ lock = {}
    /\ pc = [t \in Threads |-> "idle"]
    /\ new_block = [t \in Threads |-> NoBlock]
    /\ hashcode = [t \in Threads |-> None]
    /\ res = [t \in Threads |-> "none"]
    /\ calls = 0
    /\ obs = NoObs
    /\ returned = {}
    /\ added = {}
    /\ seen = [t \in Threads |-> {}]
    /\ arg = [t \in Threads |-> NoBlock]
    /\ head0 = [t \in Threads |-> None]
    /\ size0 = [t \in Threads |-> 0]
    /\ rd = NoRead
    /\ lin = {}
    /\ InitServer

\* No package is on its way.
NoTrip ==
    [object |-> None, package_mode |-> CLIENT_MODE, package_id |-> LOG_TEXT,
     package |-> None, pc |-> "none", back |-> None]

\* BlockChain(in_memory) after __init__, in a working directory that holds
\* the regular files cwd: no block file, no directory and no head file.
NewDisk(in_memory, cwd) ==
    [dirs |-> {}, head |-> None, cwd |-> cwd,
     in_memory |-> in_memory, files |-> [k \in {} |-> NoBlock], calls |-> 0,
     added |-> 0, sized |-> <<>>]

NoDisk == NewDisk(TRUE, {})

\* A connection on which nothing was sent: the receiver is about to read a
\* length prefix.
NoWire ==
    [written |-> <<>>, stream |-> <<>>, closed |-> FALSE, rpc |-> "recv_size",
     package_size |-> 0, handed |-> <<>>, sent |-> <<>>, errors |-> 0,
     overflows |-> 0]

\* No blocks are compared.
NoCmp ==
    [a |-> NoBlock, b |-> NoBlock, pc |-> "none", eq |-> FALSE,
     hash_a |-> None, hash_b |-> None]

\* No list of blocks is given.
NoSection ==
    [blocks |-> <<>>, pc |-> "none", given |-> <<>>, result |-> None]

IdleTrip == trip = NoTrip
IdleCmp == cmp = NoCmp
IdleStore == tampered = "no"
IdleDisk == disk = NoDisk
IdleWire == wire = NoWire
IdleSection == section = NoSection

InitExt ==
    /\ IdleTrip
    /\ IdleCmp
    /\ IdleStore
    /\ IdleDisk
    /\ IdleWire
    /\ IdleSection

\* The chain, the reader and the server with callers that have no script.
InitCallers ==
    /\ InitChain
    /\ todo = [t \in Threads |-> <<>>]
    /\ script = todo
    /\ abortOnDup = FALSE
    /\ plan = [c \in Threads |-> <<>>]

\* Free callers: any thread may submit any block of Universe.
Init ==
    /\ InitCallers
    /\ InitExt

\* Scripted workers: each submits the blocks of one file in ordinal order.
\* test_concurrent_add_same_file leaves its loop at the first
\* DuplicateBlockError (abortOnDup), Server.handle_add_block goes on with the
\* next block.
InitWorkers ==
    /\ InitChain
    /\ todo \in [Threads -> {load_file(f) : f \in WorkFiles}]
    /\ script = todo
    /\ abortOnDup \in BOOLEAN
    /\ plan = [c \in Threads |-> <<>>]
    /\ InitExt

\* --------------------------------------------------------- BlockChain.add
\* The call of add(block): the thread now waits for the lock.
AddCall(t, block) ==
    /\ pc[t] = "idle"
    /\ pc' = [pc EXCEPT ![t] = "call"]
    /\ new_block' = [new_block EXCEPT ![t] = block]
    /\ res' = [res EXCEPT ![t] = "none"]
    /\ seen' = [seen EXCEPT ![t] = returned]
    /\ arg' = [arg EXCEPT ![t] = block]
    /\ UNCHANGED <<head, map, lock, hashcode, abortOnDup, obs, returned, added,
                   head0, size0, script>>
    /\ UNCHANGED rdVars
    /\ UNCHANGED extVars

\* An add that enters without waiting for the lock to be free.
AddAcquireNoLock(t) ==
    /\ pc[t] = "call"
    /\ lock' = lock \cup {t}
    /\ new_block' = [new_block EXCEPT ![t] = set_previous(head, new_block[t])]
    /\ head0' = [head0 EXCEPT ![t] = head]
    /\ size0' = [size0 EXCEPT ![t] = size(map)]
    /\ pc' = [pc EXCEPT ![t] = "walk"]
    /\ UNCHANGED <<head, map, hashcode, res, todo, abortOnDup, calls, obs,
                   returned, added, seen, arg, script>>
    /\ UNCHANGED <<rdVars, srvVars>>
    /\ UNCHANGED extVars

\* with self.__lock; head = get_head(); new_block = Block.set_previous(head, ..)
AddAcquire(t) ==
    /\ pc[t] = "call"
    /\ lock = {}
    /\ lock' = {t}
    /\ new_block' = [new_block EXCEPT ![t] = set_previous(head, new_block[t])]
    /\ head0' = [head0 EXCEPT ![t] = head]
    /\ size0' = [size0 EXCEPT ![t] = size(map)]
    /\ pc' = [pc EXCEPT ![t] = "walk"]
    /\ UNCHANGED <<head, map, hashcode, res, todo, abortOnDup, calls, obs,
                   returned, added, seen, arg, script>>
    /\ UNCHANGED <<rdVars, srvVars>>
    /\ UNCHANGED extVars

\* An add that keeps the lock when it raises DuplicateBlockError.
AddWalkKeepsLock(t) ==
    /\ pc[t] = "walk"
    /\ IF IsDuplicate(map, new_block[t])
       THEN /\ pc' = [pc EXCEPT ![t] = "idle"]
            /\ res' = [res EXCEPT ![t] = "DuplicateBlockError"]
            /\ new_block' = [new_block EXCEPT ![t] = NoBlock]
            /\ seen' = [seen EXCEPT ![t] = {}]
            /\ arg' = [arg EXCEPT ![t] = NoBlock]
            /\ head0' = [head0 EXCEPT ![t] = None]
            /\ size0' = [size0 EXCEPT ![t] = 0]
            /\ todo' = IF abortOnDup THEN [todo EXCEPT ![t] = <<>>] ELSE todo
            /\ UNCHANGED lock
       ELSE /\ pc' = [pc EXCEPT ![t] = "store"]
            /\ UNCHANGED <<lock, res, new_block, seen, arg, head0, size0, todo>>
    /\ UNCHANGED <<head, map, hashcode, abortOnDup, calls, obs, returned, added,
                   script>>
    /\ UNCHANGED <<rdVars, srvVars>>
    /\ UNCHANGED extVars

\* The duplicate walk.  On a duplicate DuplicateBlockError leaves add, which
\* releases the lock; the caller absorbs it, and a worker that aborts drops
\* the rest of its blocks.
AddWalk(t) ==
    /\ pc[t] = "walk"
    /\ IF IsDuplicate(map, new_block[t])
       THEN /\ lock' = lock \ {t}
            /\ pc' = [pc EXCEPT ![t] = "idle"]
            /\ res' = [res EXCEPT ![t] = "DuplicateBlockError"]
            /\ new_block' = [new_block EXCEPT ![t] = NoBlock]
            /\ seen' = [seen EXCEPT ![t] = {}]
            /\ arg' = [arg EXCEPT ![t] = NoBlock]
            /\ head0' = [head0 EXCEPT ![t] = None]
            /\ size0' = [size0 EXCEPT ![t] = 0]
            /\ todo' = IF abortOnDup THEN [todo EXCEPT ![t] = <<>>] ELSE todo
       ELSE /\ pc' = [pc EXCEPT ![t] = "store"]
            /\ UNCHANGED <<lock, res, new_block, seen, arg, head0, size0, todo>>
    /\ UNCHANGED <<head, map, hashcode, abortOnDup, calls, obs, returned, added,
                   script>>
    /\ UNCHANGED <<rdVars, srvVars>>
    /\ UNCHANGED extVars

\* hashcode = self.__chain.add(new_block)
AddStore(t) ==
    /\ pc[t] = "store"
    /\ hashcode' = [hashcode EXCEPT ![t] = chain_add(map, new_block[t]).hashcode]
    /\ map' = chain_add(map, new_block[t]).map
    /\ pc' = [pc EXCEPT ![t] = "update_head"]
    /\ obs' = NoObs
    /\ lin' = Instants(head, chain_add(map, new_block[t]).map)
    /\ UNCHANGED <<head, lock, new_block, res, todo, abortOnDup, calls, returned,
                   added, seen, arg, head0, size0, script>>
    /\ UNCHANGED <<rd, srvVars>>
    /\ UNCHANGED extVars

\* self.__chain.update_head(hashcode)
AddUpdateHead(t) ==
    /\ pc[t] = "update_head"
    /\ head' = hashcode[t]
    /\ pc' = [pc EXCEPT ![t] = "return"]
    /\ added' = added \cup {arg[t]}
    /\ obs' = NoObs
    /\ lin' = Instants(hashcode[t], map)
    /\ UNCHANGED <<map, lock, new_block, hashcode, res, todo, abortOnDup, calls,
                   returned, seen, arg, head0, size0, script>>
    /\ UNCHANGED <<rd, srvVars>>
    /\ UNCHANGED extVars

\* return hashcode, which releases the lock.
AddReturn(t) ==
    /\ pc[t] = "return"
    /\ lock' = lock \ {t}
    /\ pc' = [pc EXCEPT ![t] = "idle"]
    /\ res' = [res EXCEPT ![t] = "returned"]
    /\ returned' = returned \cup {hashcode[t]}
    /\ new_block' = [new_block EXCEPT ![t] = NoBlock]
    /\ hashcode' = [hashcode EXCEPT ![t] = None]
    /\ seen' = [seen EXCEPT ![t] = {}]
    /\ arg' = [arg EXCEPT ![t] = NoBlock]
    /\ head0' = [head0 EXCEPT ![t] = None]
    /\ size0' = [size0 EXCEPT ![t] = 0]
    /\ UNCHANGED <<head, map, todo, abortOnDup, calls, obs, added, script>>
    /\ UNCHANGED <<rdVars, srvVars>>
    /\ UNCHANGED extVars

\* ------------------------------------------------------------------ callers
\* A free caller starts add with any block.
ClientCall ==
    \E t \in Threads, block \in Universe :
        /\ calls < MaxCalls
        /\ AddCall(t, block)
        /\ calls' = calls + 1
        /\ UNCHANGED todo
        /\ UNCHANGED srvVars

\* A worker starts add with its next block.
WorkerCall ==
    \E t \in Threads :
        /\ todo[t] # <<>>
        /\ AddCall(t, Head(todo[t]))
        /\ todo' = [todo EXCEPT ![t] = Tail(todo[t])]
        /\ UNCHANGED calls
        /\ UNCHANGED srvVars

\* ------------------------------------------------------------------- reads
\* A read whose walk moves the head of the chain along with it.
ObserveMovesHead(op, hash_arg, result) ==
    /\ obs' = [res |-> result, arg |-> hash_arg, op |-> op]
    /\ head' = IF chain_get(map, head) = <<>> THEN head
               ELSE chain_get(map, head)[1].hash_previous
    /\ UNCHANGED <<map, lock, pc, new_block, hashcode, res, todo,
                   abortOnDup, calls, returned, added, seen, arg, head0, size0,
                   script>>
    /\ UNCHANGED <<rdVars, srvVars>>
    /\ UNCHANGED extVars

\* A read leaves the chain as it is; obs keeps what it returned.
Observe(op, hash_arg, result) ==
    /\ obs' = [res |-> result, arg |-> hash_arg, op |-> op]
    /\ UNCHANGED <<head, map, lock, pc, new_block, hashcode, res, todo,
                   abortOnDup, calls, returned, added, seen, arg, head0, size0,
                   script>>
    /\ UNCHANGED <<rdVars, srvVars>>
    /\ UNCHANGED extVars

ReadCheck == Observe("check", None, check(head, map))

ReadCheckHash ==
    \E h \in HashArgs : Observe("check_hash", h, check_hash(head, map, h))

ReadGet == \E h \in HashArgs : Observe("get", h, get(head, map, h))

ReadSize == Observe("size", None, size(map))

Read == ReadCheck \/ ReadCheckHash \/ ReadGet \/ ReadSize

\* ---------------------------------------------------------- reading thread
\* A call of check(), check_hash(hashcode) or get(hashcode) by the reading
\* thread, which then runs step by step while other threads add.
ReadCall(op, hash_arg) ==
    /\ rd.pc = "idle"
    /\ rd' = [NoRead EXCEPT !.pc = IF op = "check" THEN "check_head" ELSE "head",
                            !.op = op, !.hashcode = hash_arg, !.cur = hash_arg]
    /\ lin' = {AtOnce(op, hash_arg, head, map)}
    /\ UNCHANGED <<chainVars, srvVars>>
    /\ UNCHANGED extVars

ReadCalls ==
    \/ ReadCall("check", None)
    \/ \E h \in HashArgs : ReadCall("check_hash", h)
    \/ \E h \in HashArgs : ReadCall("get", h)

\* __get_blocks_for_hash has left its loop with `blocks`: get sorts them,
\* check_hash hashes them, and check, which called check_hash, goes on with
\* its next file hash.
AfterCollect(r, blocks) ==
    IF r.op = "get"
    THEN [r EXCEPT !.pc = "done", !.res = SortByOrdinal(blocks)]
    ELSE IF r.op = "check_hash"
    THEN [r EXCEPT !.pc = "done", !.res = check_hash_blocks(blocks, r.cur)]
    ELSE [r EXCEPT !.pc = "check_files",
                   !.chain_valid = r.chain_valid
                                   /\ check_hash_blocks(blocks, r.cur)[1]]

\* __get_blocks_for_hash: head = self.__chain.get_head()
ReadHead ==
    /\ rd.pc = "head"
    /\ rd' = IF head = None THEN AfterCollect(rd, <<>>)
             ELSE [rd EXCEPT !.pc = "walk", !.head = head, !.blocks = <<>>]
    /\ UNCHANGED <<chainVars, lin, srvVars>>
    /\ UNCHANGED extVars

\* __get_blocks_for_hash: one turn of the loop, with the read of the block.
ReadWalk ==
    /\ rd.pc = "walk"
    /\ rd' = IF chain_get(map, rd.head) = <<>> THEN AfterCollect(rd, rd.blocks)
             ELSE LET block == chain_get(map, rd.head)[1]
                      found == IF block.hash = rd.cur
                               THEN Append(rd.blocks, block) ELSE rd.blocks
                  IN  IF hash_block(block) # rd.head
                      THEN AfterCollect(rd, rd.blocks)
                      ELSE IF block.hash = rd.cur /\ block.index_all = Len(found)
                      THEN AfterCollect(rd, found)
                      ELSE [rd EXCEPT !.head = block.hash_previous,
                                      !.blocks = found]
    /\ UNCHANGED <<chainVars, lin, srvVars>>
    /\ UNCHANGED extVars

\* check: head = self.__chain.get_head()
CheckHead ==
    /\ rd.pc = "check_head"
    /\ rd' = IF head = None
             THEN [rd EXCEPT !.pc = "done", !.res = <<TRUE, 0>>]
             ELSE [rd EXCEPT !.pc = "check_walk", !.head = head]
    /\ UNCHANGED <<chainVars, lin, srvVars>>
    /\ UNCHANGED extVars

\* check: one turn of the first loop, and the lines behind the loop when it
\* ends.
CheckLoop ==
    /\ rd.pc = "check_walk"
    /\ rd' = IF chain_get(map, rd.head) = <<>>
             THEN IF rd.head # None
                  THEN [rd EXCEPT !.pc = "done", !.res = <<FALSE, 0>>]
                  ELSE [rd EXCEPT !.pc = "check_files", !.todo = rd.file_hashes]
             ELSE LET block == chain_get(map, rd.head)[1]
                  IN  IF hash_block(block) # rd.head
                      THEN [rd EXCEPT !.pc = "done", !.res = <<FALSE, 0>>]
                      ELSE [rd EXCEPT !.head = block.hash_previous,
                                      !.file_hashes = rd.file_hashes
                                                      \cup {block.hash}]
    /\ UNCHANGED <<chainVars, lin, srvVars>>
    /\ UNCHANGED extVars

\* check: the loop over file_hashes, which calls check_hash for the next
\* hash of the set, and the return behind it.
CheckFiles ==
    /\ rd.pc = "check_files"
    /\ IF rd.todo = {}
       THEN rd' = [rd EXCEPT !.pc = "done",
                             !.res = <<rd.chain_valid,
                                       Cardinality(rd.file_hashes)>>]
       ELSE \E h \in rd.todo :
                rd' = [rd EXCEPT !.pc = "head", !.cur = h, !.blocks = <<>>,
                                 !.todo = rd.todo \ {h}]
    /\ UNCHANGED <<chainVars, lin, srvVars>>
    /\ UNCHANGED extVars

ReadStep == ReadHead \/ ReadWalk \/ CheckHead \/ CheckLoop \/ CheckFiles

AddStep ==
    \E t \in Threads :
        \/ AddAcquire(t)
        \/ AddWalk(t)
        \/ AddStore(t)
        \/ AddUpdateHead(t)
        \/ AddReturn(t)

\* ------------------------------------------------------------ server thread
\* Server.__start: self.sock.listen()
ServerListen ==
    /\ apc = "start"
    /\ listener' = "listening"
    /\ apc' = "accept"
    /\ UNCHANGED <<chainVars, rdVars, stopped, dialed, cur, clients, idx,
                   backlog, peer, sock, wpc, inq, frames, last, before>>
    /\ UNCHANGED extVars

\* Server.__start: sock, addr = self.sock.accept(); self.clients.append(sock)
Accept ==
    /\ apc = "accept"
    /\ backlog # <<>>
    /\ cur' = <<Head(backlog)>>
    /\ backlog' = Tail(backlog)
    /\ sock' = [sock EXCEPT ![Head(backlog)] = "open"]
    /\ clients' = Append(clients, Head(backlog))
    /\ apc' = "check"
    /\ UNCHANGED <<chainVars, rdVars, stopped, dialed, listener, idx, peer,
                   wpc, inq, frames, last, before>>
    /\ UNCHANGED extVars

\* Server.__start: if self.stopped.isSet() the loop over self.clients begins,
\* otherwise the thread of the connection is started.
AcceptCheck ==
    /\ apc = "check"
    /\ IF stopped
       THEN /\ apc' = "shutdown"
            /\ idx' = 1
            /\ UNCHANGED wpc
       ELSE /\ cur[1] \in Threads
            /\ wpc' = [wpc EXCEPT ![cur[1]] = "loop"]
            /\ apc' = "accept"
            /\ UNCHANGED idx
    /\ UNCHANGED <<chainVars, rdVars, stopped, dialed, listener, cur, clients,
                   backlog, peer, sock, inq, frames, last, before>>
    /\ UNCHANGED extVars

\* Server.__start: one turn of `for client in self.clients`, client.shutdown(0)
\* and client.close(), and behind the loop self.sock.close() and break.
\* shutdown on a socket that is closed raises OSError, which nothing catches:
\* the server thread ends there.
ShutdownClients ==
    /\ apc = "shutdown"
    /\ IF idx > Len(clients)
       THEN /\ listener' = "closed"
            /\ apc' = "done"
            /\ UNCHANGED <<idx, sock>>
       ELSE IF sock[clients[idx]] = "closed"
       THEN /\ apc' = "crashed"
            /\ UNCHANGED <<idx, sock, listener>>
       ELSE /\ sock' = [sock EXCEPT ![clients[idx]] = "closed"]
            /\ idx' = idx + 1
            /\ UNCHANGED <<apc, listener>>
    /\ UNCHANGED <<chainVars, rdVars, stopped, dialed, cur, clients, backlog,
                   peer, wpc, inq, frames, last, before>>
    /\ UNCHANGED extVars

\* Server.stop on a server that listens: self.stopped.set()
StopSet ==
    /\ listener = "listening"
    /\ apc \notin {"done", "crashed"}
    /\ ~stopped
    /\ stopped' = TRUE
    /\ UNCHANGED <<chainVars, rdVars, dialed, listener, apc, cur, clients, idx,
                   backlog, peer, sock, wpc, inq, frames, last, before>>
    /\ UNCHANGED extVars

\* Server.stop: the connection to the server's own address, closed at once.
\* It is refused when the listening socket is closed by then.
StopDial ==
    /\ stopped
    /\ ~dialed
    /\ dialed' = TRUE
    /\ IF listener = "listening"
       THEN /\ backlog' = Append(backlog, Dial)
            /\ peer' = [peer EXCEPT ![Dial] = "closed"]
       ELSE UNCHANGED <<backlog, peer>>
    /\ UNCHANGED <<chainVars, rdVars, stopped, listener, apc, cur, clients, idx,
                   sock, wpc, inq, frames, last, before>>
    /\ UNCHANGED extVars

\* -------------------------------------------------------------- the clients
\* Client.connect: the socket connects and the reading thread starts.
Connect(c) ==
    /\ peer[c] = "none"
    /\ listener = "listening"
    /\ peer' = [peer EXCEPT ![c] = "open"]
    /\ backlog' = Append(backlog, c)
    /\ cpc' = [cpc EXCEPT ![c] = "read"]
    /\ UNCHANGED <<chainVars, rdVars, stopped, dialed, listener, apc, cur,
                   clients, idx, sock, wpc, inq, frames, last, before>>
    /\ UNCHANGED <<pureVars, reply, outlog, sentlog, cread, local_files, plan>>

\* Client.close
Disconnect(c) ==
    /\ peer[c] = "open"
    /\ peer' = [peer EXCEPT ![c] = "closed"]
    /\ UNCHANGED <<chainVars, rdVars, stopped, dialed, listener, apc, cur,
                   clients, idx, backlog, sock, wpc, inq, frames, last, before>>
    /\ UNCHANGED extVars

\* send: the bytes of one frame go to the server.
PeerSend(c, frame) ==
    /\ peer[c] = "open"
    /\ frames < MaxFrames
    /\ inq' = [inq EXCEPT ![c] = Append(inq[c], frame)]
    /\ sentlog' = [sentlog EXCEPT ![c] = Append(sentlog[c], frame)]
    /\ frames' = frames + 1
    /\ UNCHANGED <<chainVars, rdVars, stopped, dialed, listener, apc, cur,
                   clients, idx, backlog, peer, sock, wpc, last, before>>
    /\ UNCHANGED <<pureVars, reply, outlog, cpc, cread, local_files, plan>>

\* The blocks and hashes the clients of the server send.
SendBlocks == {load_file(FileAB)[1], load_file(FileAB)[2], load_file(FileCopy)[1]}
AskHashes == {load_file(FileAB)[1].hash, AbsentHash}

\* Client.add_file sends its blocks one by one: one SEND_FILE package.
SendBlock(c) ==
    \E block \in SendBlocks :
        PeerSend(c, raw(create_from_object(SERVER_MODE, SEND_FILE, block)))

\* The first package of Client.add_file for the file ab.txt.
SendFirstBlock(c) ==
    PeerSend(c, raw(create_from_object(SERVER_MODE, SEND_FILE,
                                       load_file(FileAB)[1])))

\* Client.check_hash
SendCheckHash(c) ==
    \E h \in AskHashes :
        PeerSend(c, raw(create_from_object(SERVER_MODE, HASH_CHECK, h)))

\* Client.get_file
SendGetFile(c) ==
    \E h \in AskHashes :
        PeerSend(c, raw(create_from_object(SERVER_MODE, GET_FILE, h)))

\* Client.full_check: the bytes of a server-bound package of id FULL_CHECK
\* with the payload None.
SendFullCheck(c) == PeerSend(c, Frame(SERVER_MODE + FULL_CHECK, None))

\* Bytes the server cannot handle: a package for a client, a package of an
\* unknown id for the server or for a client, and a package of an id that
\* has no handler.
SendClientBound(c) ==
    PeerSend(c, Frame(CLIENT_MODE + SEND_FILE, load_file(FileAB)[1]))

SendUnknownId(c) ==
    \/ PeerSend(c, Frame(SERVER_MODE + UnknownId, None))
    \/ PeerSend(c, Frame(CLIENT_MODE + UnknownId, None))

SendNoHandler(c) == PeerSend(c, Frame(SERVER_MODE + FILE_CHECK, None))

\* ------------------------------------------------- Server.__handle_client
\* while not self.stopped.isSet(): the worker goes on to read, or leaves the
\* loop and closes its socket.
HandleClientLoop(c) ==
    /\ wpc[c] = "loop"
    /\ IF stopped
       THEN /\ sock' = [sock EXCEPT ![c] = "closed"]
            /\ wpc' = [wpc EXCEPT ![c] = "done"]
       ELSE /\ wpc' = [wpc EXCEPT ![c] = "read"]
            /\ UNCHANGED sock
    /\ UNCHANGED <<chainVars, rdVars, stopped, dialed, listener, apc, cur,
                   clients, idx, backlog, peer, inq, frames, last, before>>
    /\ UNCHANGED extVars

\* read returns True: recv gave no bytes because the peer has closed, or the
\* server thread has shut the socket down.  The worker closes the socket and
\* ends.
HandleClientEof(c) ==
    /\ wpc[c] = "read"
    /\ sock[c] = "closed" \/ (inq[c] = <<>> /\ peer[c] = "closed")
    /\ sock' = [sock EXCEPT ![c] = "closed"]
    /\ wpc' = [wpc EXCEPT ![c] = "done"]
    /\ UNCHANGED <<chainVars, rdVars, stopped, dialed, listener, apc, cur,
                   clients, idx, backlog, peer, inq, frames, last, before>>
    /\ UNCHANGED extVars

\* read: package_handler.handle raises PackageCreationError or
\* PackageHandleError.  read catches socket.error only, so the exception ends
\* the worker's thread before sock.close().
HandleClientRaised(c) ==
    /\ wpc[c] = "read"
    /\ sock[c] = "open"
    /\ inq[c] # <<>>
    /\ handle(SERVER_MODE, ServerHandlers, Head(inq[c])).raised # "none"
    /\ inq' = [inq EXCEPT ![c] = Tail(inq[c])]
    /\ before' = [before EXCEPT ![c] = last[c]]
    /\ last' = [last EXCEPT ![c] =
                  [raised |-> handle(SERVER_MODE, ServerHandlers,
                                     Head(inq[c])).raised,
                   invoked |-> <<>>, outcome |-> "none",
                   frame |-> Head(inq[c]), ret |-> <<>>]]
    /\ wpc' = [wpc EXCEPT ![c] = "crashed"]
    /\ UNCHANGED <<chainVars, rdVars, stopped, dialed, listener, apc, cur,
                   clients, idx, backlog, peer, sock, frames>>
    /\ UNCHANGED extVars

\* read: handle calls Server.handle_add_block, which calls add with the block
\* of the package (and returns [] for a payload that is no block).
HandleClientAdd(c) ==
    /\ wpc[c] = "read"
    /\ sock[c] = "open"
    /\ inq[c] # <<>>
    /\ handle(SERVER_MODE, ServerHandlers, Head(inq[c])).raised = "none"
    /\ handle(SERVER_MODE, ServerHandlers, Head(inq[c])).invoked = <<SEND_FILE>>
    /\ inq' = [inq EXCEPT ![c] = Tail(inq[c])]
    /\ before' = [before EXCEPT ![c] = last[c]]
    /\ last' = [last EXCEPT ![c] =
                  [raised |-> "none", invoked |-> <<SEND_FILE>>,
                   outcome |-> "none", frame |-> Head(inq[c]),
                   ret |-> <<>>]]
    /\ IF pickle_loads(Head(inq[c])[2]) = None
       THEN /\ wpc' = [wpc EXCEPT ![c] = "loop"]
            /\ UNCHANGED <<chainVars, rdVars, extVars>>
       ELSE /\ wpc' = [wpc EXCEPT ![c] = "add"]
            /\ AddCall(c, pickle_loads(Head(inq[c])[2]))
            /\ UNCHANGED <<todo, calls>>
    /\ UNCHANGED <<stopped, dialed, listener, apc, cur, clients, idx, backlog,
                   peer, sock, frames>>

\* Server.handle_add_block once add has returned or raised: what it returns
\* is read's out_packages, and read goes on to send them if there are any.
HandleClientAdded(c) ==
    /\ wpc[c] = "add"
    /\ pc[c] = "idle"
    /\ last' = [last EXCEPT ![c].outcome = res[c],
                            ![c].ret =
                  handle_add_block(head, map, pickle_loads(last[c].frame[2]),
                                   res[c])]
    /\ reply' = [reply EXCEPT ![c] =
                   handle_add_block(head, map, pickle_loads(last[c].frame[2]),
                                    res[c])]
    /\ wpc' = [wpc EXCEPT ![c] =
                 IF handle_add_block(head, map,
                        pickle_loads(last[c].frame[2]), res[c]) # <<>>
                 THEN "send" ELSE "loop"]
    /\ UNCHANGED <<chainVars, rdVars, stopped, dialed, listener, apc, cur,
                   clients, idx, backlog, peer, sock, inq, frames, before>>
    /\ UNCHANGED <<pureVars, outlog, sentlog, cpc, cread, local_files, plan>>

\* What the handler installed for a package id that asks about the chain
\* returns.
Answer(package_id, object, h, m) ==
    IF package_id = HASH_CHECK THEN handle_check_hash(h, m, object)
    ELSE IF package_id = GET_FILE THEN handle_request_file(h, m, object)
    ELSE handle_full_check(h, m)

\* read: handle calls handle_check_hash, handle_request_file or
\* handle_full_check; the packages it returns are read's out_packages.
HandleClientAsk(c) ==
    /\ wpc[c] = "read"
    /\ sock[c] = "open"
    /\ inq[c] # <<>>
    /\ handle(SERVER_MODE, ServerHandlers, Head(inq[c])).raised = "none"
    /\ handle(SERVER_MODE, ServerHandlers, Head(inq[c])).invoked # <<SEND_FILE>>
    /\ inq' = [inq EXCEPT ![c] = Tail(inq[c])]
    /\ before' = [before EXCEPT ![c] = last[c]]
    /\ last' = [last EXCEPT ![c] =
                  LET called == handle(SERVER_MODE, ServerHandlers, Head(inq[c]))
                  IN  [raised |-> "none", invoked |-> called.invoked,
                       outcome |-> "none", frame |-> Head(inq[c]),
                       ret |-> Answer(called.invoked[1],
                                      pickle_loads(Head(inq[c])[2]), head, map)]]
    /\ reply' = [reply EXCEPT ![c] =
                   Answer(handle(SERVER_MODE, ServerHandlers,
                                 Head(inq[c])).invoked[1],
                          pickle_loads(Head(inq[c])[2]), head, map)]
    /\ wpc' = [wpc EXCEPT ![c] = "send"]
    /\ UNCHANGED <<chainVars, rdVars, stopped, dialed, listener, apc, cur,
                   clients, idx, backlog, peer, sock, frames>>
    /\ UNCHANGED <<pureVars, outlog, sentlog, cpc, cread, local_files, plan>>

\* The number of the request a worker is answering: the frames of its
\* connection it has taken so far.
Taken(c) == Len(sentlog[c]) - Len(inq[c])

\* A worker that gives up the rest of out_packages after the first package.
HandleClientSendFirstOnly(c) ==
    /\ wpc[c] = "send"
    /\ sock[c] = "open"
    /\ outlog' = [outlog EXCEPT ![c] =
                    Append(outlog[c], <<Taken(c), raw(Head(reply[c]))>>)]
    /\ reply' = [reply EXCEPT ![c] = <<>>]
    /\ wpc' = [wpc EXCEPT ![c] = "loop"]
    /\ UNCHANGED <<chainVars, rdVars, stopped, dialed, listener, apc, cur,
                   clients, idx, backlog, peer, sock, inq, frames, last, before>>
    /\ UNCHANGED <<pureVars, sentlog, cpc, cread, local_files, plan>>

\* read: for package in out_packages: send(package, sock).  One package goes
\* to the socket at a time, and the worker returns to its loop after the last
\* one.  Sending on a socket the server thread has closed raises socket.error:
\* read returns True, the worker closes the socket and ends.
HandleClientSend(c) ==
    /\ wpc[c] = "send"
    /\ IF sock[c] = "closed"
       THEN /\ reply' = [reply EXCEPT ![c] = <<>>]
            /\ wpc' = [wpc EXCEPT ![c] = "done"]
            /\ UNCHANGED outlog
       ELSE /\ outlog' = [outlog EXCEPT ![c] =
                            Append(outlog[c], <<Taken(c), raw(Head(reply[c]))>>)]
            /\ reply' = [reply EXCEPT ![c] = Tail(reply[c])]
            /\ wpc' = [wpc EXCEPT ![c] =
                         IF Tail(reply[c]) = <<>> THEN "loop" ELSE "send"]
    /\ UNCHANGED <<chainVars, rdVars, stopped, dialed, listener, apc, cur,
                   clients, idx, backlog, peer, sock, inq, frames, last, before>>
    /\ UNCHANGED <<pureVars, sentlog, cpc, cread, local_files, plan>>

HandleClient(c) ==
    \/ HandleClientLoop(c)
    \/ HandleClientEof(c)
    \/ HandleClientRaised(c)
    \/ HandleClientAdd(c)
    \/ HandleClientAdded(c)
    \/ HandleClientAsk(c)
    \/ HandleClientSend(c)

\* The server with its clients: connections come and go, frames that can and
\* that cannot be handled arrive, and stop() may be called at any moment.
NextServer ==
    \/ ServerListen
    \/ Accept
    \/ AcceptCheck
    \/ ShutdownClients
    \/ StopSet
    \/ StopDial
    \/ \E c \in Threads :
          \/ Connect(c)
          \/ Disconnect(c)
          \/ SendFirstBlock(c)
          \/ SendClientBound(c)
          \/ HandleClientLoop(c)
          \/ HandleClientEof(c)
          \/ HandleClientRaised(c)
          \/ HandleClientAdd(c)
          \/ HandleClientAdded(c)
    \/ AddStep

SpecServer == Init /\ [][NextServer]_vars

\* One client of a server that is not stopped: every request of the protocol
\* and every kind of frame the server cannot handle.
FirstClient == 1

NextRequests ==
    \/ ServerListen
    \/ Accept
    \/ AcceptCheck
    \/ Connect(FirstClient)
    \/ Disconnect(FirstClient)
    \/ SendBlock(FirstClient)
    \/ SendCheckHash(FirstClient)
    \/ SendGetFile(FirstClient)
    \/ SendFullCheck(FirstClient)
    \/ SendClientBound(FirstClient)
    \/ SendUnknownId(FirstClient)
    \/ SendNoHandler(FirstClient)
    \/ HandleClient(FirstClient)
    \/ AddStep

SpecRequests == Init /\ [][NextRequests]_vars

\* ------------------------------------------------------- the client's side
\* The handlers Client.__init__ installs: logger.log and handle_get_file.
ClientHandlers == {LOG_TEXT, SEND_FILE}

\* open(filename, "ab") and write(chunk): the chunk goes behind what the file
\* holds, and a file that does not exist starts empty.
AppendFile(fs, filename, chunk) ==
    [f \in DOMAIN fs \cup {filename} |->
        IF f = filename
        THEN (IF filename \in DOMAIN fs THEN fs[filename] ELSE <<>>) \o chunk
        ELSE fs[f]]

\* Client.handle_get_file
handle_get_file(fs, block) == AppendFile(fs, block.filename, block.chunk)

\* Client.running: thread.is_alive() of the reading thread.
running(c) == cpc[c] = "read"

\* Client.__connect, read gives False: one package of the server is handled.
\* logger.log prints a LogResult; handle_get_file writes a block's chunk to
\* the file of its name.  Neither returns packages to send.  An exception
\* of the handler ends the thread.
ClientReadPackage(c) ==
    /\ cpc[c] = "read"
    /\ peer[c] = "open"
    /\ cread[c] < Len(outlog[c])
    /\ cread' = [cread EXCEPT ![c] = cread[c] + 1]
    /\ LET byte_package == outlog[c][cread[c] + 1][2]
           called == handle(CLIENT_MODE, ClientHandlers, byte_package)
       IN  IF called.raised # "none"
           THEN /\ cpc' = [cpc EXCEPT ![c] = "exited"]
                /\ UNCHANGED local_files
           ELSE /\ local_files' =
                     [local_files EXCEPT ![c] =
                         IF called.invoked = <<SEND_FILE>>
                         THEN handle_get_file(local_files[c],
                                              pickle_loads(byte_package[2]))
                         ELSE local_files[c]]
                /\ UNCHANGED cpc
    /\ UNCHANGED <<chainVars, rdVars, srvVars, pureVars>>
    /\ UNCHANGED <<reply, outlog, sentlog, plan>>

\* A reading thread that returns only when its own side has closed.
ClientReadEofOwnClose(c) ==
    /\ cpc[c] = "read"
    /\ peer[c] = "closed"
    /\ cpc' = [cpc EXCEPT ![c] = "exited"]
    /\ UNCHANGED <<chainVars, rdVars, srvVars, pureVars>>
    /\ UNCHANGED <<reply, outlog, sentlog, cread, local_files, plan>>

\* Client.__connect, read gives True: recv gave no bytes or raised
\* socket.error, because the server has closed the connection and all it
\* wrote is read, or because Client.close has shut the socket down.  The
\* thread logs "Connection closed" and returns.
ClientReadEof(c) ==
    /\ cpc[c] = "read"
    /\ \/ peer[c] = "closed"
       \/ sock[c] = "closed" /\ cread[c] = Len(outlog[c])
    /\ cpc' = [cpc EXCEPT ![c] = "exited"]
    /\ UNCHANGED <<chainVars, rdVars, srvVars, pureVars>>
    /\ UNCHANGED <<reply, outlog, sentlog, cread, local_files, plan>>

\* Client.add_file: one SEND_FILE package for each block of the file, in
\* ordinal order.
add_file(file) ==
    [i \in DOMAIN load_file(file) |->
        raw(create_from_object(SERVER_MODE, SEND_FILE, load_file(file)[i]))]

\* Client.get_file: one GET_FILE package with the file hash.
get_file(file_hash) ==
    <<raw(create_from_object(SERVER_MODE, GET_FILE, file_hash))>>

\* The next send of the calls a client makes one after the other.
PlanSend(c) ==
    /\ peer[c] = "open"
    /\ plan[c] # <<>>
    /\ inq' = [inq EXCEPT ![c] = Append(inq[c], Head(plan[c]))]
    /\ sentlog' = [sentlog EXCEPT ![c] = Append(sentlog[c], Head(plan[c]))]
    /\ plan' = [plan EXCEPT ![c] = Tail(plan[c])]
    /\ UNCHANGED <<chainVars, rdVars, stopped, dialed, listener, apc, cur,
                   clients, idx, backlog, peer, sock, wpc, frames, last, before>>
    /\ UNCHANGED <<pureVars, reply, outlog, cpc, cread, local_files>>

\* A client that asks while the server is stopped or the client leaves: the
\* reading thread of the client takes the answers and the end of the
\* connection.
NextClose ==
    \/ ServerListen
    \/ Accept
    \/ AcceptCheck
    \/ ShutdownClients
    \/ StopSet
    \/ StopDial
    \/ Connect(FirstClient)
    \/ Disconnect(FirstClient)
    \/ SendCheckHash(FirstClient)
    \/ HandleClientLoop(FirstClient)
    \/ HandleClientEof(FirstClient)
    \/ HandleClientAsk(FirstClient)
    \/ HandleClientSend(FirstClient)
    \/ ClientReadPackage(FirstClient)
    \/ ClientReadEof(FirstClient)

\* The reading thread is scheduled: it does not wait for ever with bytes or
\* the end of the connection at hand.
SpecClose ==
    /\ Init
    /\ [][NextClose]_vars
    /\ WF_vars(ClientReadPackage(FirstClient))
    /\ WF_vars(ClientReadEof(FirstClient))

\* The files a client calls add_file with.
AddFiles == WorkFiles \cup {FileCopy}

\* One client of a server that runs on: the client connects and calls
\* add_file with one of the files.
InitAddFile ==
    /\ InitChain
    /\ todo = [t \in Threads |-> <<>>]
    /\ script = todo
    /\ abortOnDup = FALSE
    /\ plan \in {[c \in Threads |->
                    IF c = FirstClient THEN add_file(f) ELSE <<>>] :
                 f \in AddFiles}
    /\ InitExt

NextAddFile ==
    \/ ServerListen
    \/ Accept
    \/ AcceptCheck
    \/ Connect(FirstClient)
    \/ PlanSend(FirstClient)
    \/ HandleClientLoop(FirstClient)
    \/ HandleClientAdd(FirstClient)
    \/ HandleClientAdded(FirstClient)
    \/ HandleClientSend(FirstClient)
    \/ AddStep
    \/ ClientReadPackage(FirstClient)

\* The server thread, the worker of the connection and the add it calls are
\* scheduled.
SpecAddFile ==
    /\ InitAddFile
    /\ [][NextAddFile]_vars
    /\ WF_vars(ServerListen \/ Accept \/ AcceptCheck)
    /\ WF_vars(HandleClient(FirstClient))
    /\ WF_vars(AddStep)

\* Two clients of a server that runs on.  The first adds the file ab.txt and
\* then asks for it by its hash; the second adds copy.txt, a file of the same
\* content.
SecondClient == 2

InitGetFile ==
    /\ InitChain
    /\ todo = [t \in Threads |-> <<>>]
    /\ script = todo
    /\ abortOnDup = FALSE
    /\ plan = [c \in Threads |->
                 IF c = FirstClient
                 THEN add_file(FileAB) \o get_file(Sha256(Concat(FileAB.chunks)))
                 ELSE IF c = SecondClient THEN add_file(FileCopy)
                 ELSE <<>>]
    /\ InitExt

NextGetFile ==
    \/ ServerListen
    \/ Accept
    \/ AcceptCheck
    \/ \E c \in {FirstClient, SecondClient} :
          \/ Connect(c)
          \/ PlanSend(c)
          \/ HandleClientLoop(c)
          \/ HandleClientAdd(c)
          \/ HandleClientAdded(c)
          \/ HandleClientAsk(c)
          \/ HandleClientSend(c)
          \/ ClientReadPackage(c)
    \/ AddStep

SpecGetFile == InitGetFile /\ [][NextGetFile]_vars

\* --------------------------------------------------- packages and bytes
\* The objects the two sides put into packages: None, a file hash, a block
\* and a log result.
Objects ==
    <<None, AbsentHash, load_file(FileAB)[1], LogResult("INFO", <<"is stored">>)>>

\* A factory of either mode is asked for a package of some id with some
\* object.
InitPackages ==
    /\ InitCallers
    /\ \E package_mode \in {SERVER_MODE, CLIENT_MODE},
          package_id \in PackageId \cup {FULL_CHECK, UnknownId},
          i \in DOMAIN Objects :
            trip = [NoTrip EXCEPT !.pc = "start",
                                  !.package_mode = package_mode,
                                  !.package_id = package_id,
                                  !.object = Objects[i]]
    /\ IdleCmp
    /\ IdleStore
    /\ IdleDisk
    /\ IdleWire
    /\ IdleSection

\* PackageFactory.create_from_object: PackageCreationError for an id that is
\* not in packages_ids, the package otherwise.
CreateFromObject ==
    /\ trip.pc = "start"
    /\ trip' = IF trip.package_id \notin packages_ids
               THEN [trip EXCEPT !.pc = "raised"]
               ELSE [trip EXCEPT !.pc = "made",
                                 !.package =
                                     create_from_object(trip.package_mode,
                                                        trip.package_id,
                                                        trip.object)]
    /\ UNCHANGED <<chainVars, rdVars, srvVars, cliVars, cmp, tampered, disk, wire, section>>

\* The receiving side: create_from_bytes of the raw bytes of the package.
CreateFromBytes ==
    /\ trip.pc = "made"
    /\ trip' = [trip EXCEPT !.pc = "parsed",
                            !.back = create_from_bytes(raw(trip.package))]
    /\ UNCHANGED <<chainVars, rdVars, srvVars, cliVars, cmp, tampered, disk, wire, section>>

NextPackages == CreateFromObject \/ CreateFromBytes

SpecPackages == InitPackages /\ [][NextPackages]_vars

\* ----------------------------------------------------- blocks compared
\* Blocks that differ in any of their six fields.
EqBlocks ==
    {Block(file_hash, index_all, ordinal, chunk, filename, hash_previous) :
        file_hash \in {Sha256(ChunkA), Sha256(ChunkB)},
        index_all \in {1, 2}, ordinal \in {0, 1},
        chunk \in {ChunkA, ChunkB}, filename \in {"ab.txt", "copy.txt"},
        hash_previous \in {None, AbsentHash}}

InitBlocks ==
    /\ InitCallers
    /\ \E a \in EqBlocks, b \in EqBlocks :
            cmp = [NoCmp EXCEPT !.pc = "start", !.a = a, !.b = b]
    /\ IdleTrip
    /\ IdleStore
    /\ IdleDisk
    /\ IdleWire
    /\ IdleSection

\* a == b, hash(a) and hash(b)
Compare ==
    /\ cmp.pc = "start"
    /\ cmp' = [cmp EXCEPT !.pc = "done", !.eq = Eq(cmp.a, cmp.b),
                          !.hash_a = block_hash(cmp.a),
                          !.hash_b = block_hash(cmp.b)]
    /\ UNCHANGED <<chainVars, rdVars, srvVars, cliVars, trip, tampered, disk, wire, section>>

NextBlocks == Compare

SpecBlocks == InitBlocks /\ [][NextBlocks]_vars

\* ------------------------------------------------------ a tampered store
\* What a stored block may be turned into: other bytes in its chunk, or a
\* hash_previous that names no block.
Altered(block) ==
    {Block(block.hash, block.index_all, block.ordinal, <<99>>, block.filename,
           block.hash_previous),
     set_previous(AbsentHash, block)}

\* The map without the entry of key.
Removed(m, key) == [k \in DOMAIN m \ {key} |-> m[k]]

\* Somebody writes into MemoryDictionary.__map (or into the files of
\* FileDictionary) without going through add: a block that is reachable from
\* head gets other content.
AlterBlock ==
    /\ tampered = "no"
    /\ \E key \in Reach(map, head) :
          \E block \in Altered(map[key]) :
              map' = [map EXCEPT ![key] = block]
    /\ tampered' = "altered"
    /\ obs' = NoObs
    /\ UNCHANGED <<head, lock, pc, new_block, hashcode, res, todo, abortOnDup,
                   calls, returned, added, seen, arg, head0, size0, script>>
    /\ UNCHANGED <<rdVars, srvVars, cliVars, trip, cmp, disk, wire, section>>

\* A block that is reachable from head is taken out of the store.
RemoveBlock ==
    /\ tampered = "no"
    /\ \E key \in Reach(map, head) : map' = Removed(map, key)
    /\ tampered' = "removed"
    /\ obs' = NoObs
    /\ UNCHANGED <<head, lock, pc, new_block, hashcode, res, todo, abortOnDup,
                   calls, returned, added, seen, arg, head0, size0, script>>
    /\ UNCHANGED <<rdVars, srvVars, cliVars, trip, cmp, disk, wire, section>>

\* ------------------------------------------------------ the two stores
\* Names of regular files the working directory may hold.
CwdNames == {"head", "4c", "main.py"}

InitStores ==
    /\ InitCallers
    /\ \E in_memory \in BOOLEAN, cwd \in SUBSET CwdNames :
            disk = NewDisk(in_memory, cwd)
    /\ IdleTrip
    /\ IdleCmp
    /\ IdleStore
    /\ IdleWire
    /\ IdleSection

\* BlockChain.add by a single thread: DuplicateBlockError leaves the store
\* as it is; otherwise the store's add writes the block (FileDictionary
\* makes the directory first) and update_head writes the head.
StoreAdd ==
    \E block \in Universe :
        /\ disk.calls < MaxCalls
        /\ LET new_block_ == set_previous(disk.head, block)
           IN  disk' =
                 IF IsDuplicate(disk.files, new_block_)
                 THEN [disk EXCEPT !.calls = disk.calls + 1]
                 ELSE [disk EXCEPT
                         !.calls = disk.calls + 1,
                         !.added = disk.added + 1,
                         !.dirs = IF disk.in_memory THEN disk.dirs
                                  ELSE disk.dirs
                                       \cup {hash_dir(hash_block(new_block_))},
                         !.files = chain_add(disk.files, new_block_).map,
                         !.head = chain_add(disk.files, new_block_).hashcode,
                         !.sized = <<>>]
        /\ UNCHANGED <<chainVars, rdVars, srvVars, cliVars, trip, cmp, tampered, wire, section>>

\* BlockChain.size
StoreSize ==
    /\ disk' = [disk EXCEPT !.sized =
                   <<store_size(disk.in_memory, disk.files, disk.dirs,
                                disk.head, disk.cwd)>>]
    /\ UNCHANGED <<chainVars, rdVars, srvVars, cliVars, trip, cmp, tampered, wire, section>>

NextStores == StoreAdd \/ StoreSize

SpecStores == InitStores /\ [][NextStores]_vars

\* ------------------------------------------------------- bytes in flight
\* The raw bytes of the packages a side sends: a header byte alone, and a
\* header byte with a payload of one byte.
WireRaws == {<<129>>, <<130, 7>>}

\* The raw bytes of a package that is one byte too long for the prefix.
BigRaw == [i \in 1..(MaxSize + 1) |-> 0]

InitWire ==
    /\ InitCallers
    /\ wire = NoWire
    /\ IdleSection
    /\ IdleTrip
    /\ IdleCmp
    /\ IdleStore
    /\ IdleDisk

\* send(package, sock) with the given raw bytes by the sending side.
WireSendOf(raw_bytes) ==
    /\ ~wire.closed
    /\ Len(wire.sent) + wire.overflows < MaxFrames
    /\ LET done == send(raw_bytes, <<>>)
       IN  wire' = [wire EXCEPT
                      !.stream = wire.stream \o done.written,
                      !.written = wire.written \o done.written,
                      !.errors = wire.errors + done.logged,
                      !.sent = IF Len(raw_bytes) > MaxSize THEN wire.sent
                               ELSE Append(wire.sent, raw_bytes),
                      !.overflows = IF Len(raw_bytes) > MaxSize
                                    THEN wire.overflows + 1
                                    ELSE wire.overflows]
    /\ UNCHANGED <<chainVars, rdVars, srvVars, cliVars, trip, cmp, tampered, disk, section>>

WireSend == \E raw_bytes \in WireRaws : WireSendOf(raw_bytes)

WireSendBig == WireSendOf(BigRaw)

\* The sending side closes its socket.
WireClose ==
    /\ ~wire.closed
    /\ wire' = [wire EXCEPT !.closed = TRUE]
    /\ UNCHANGED <<chainVars, rdVars, srvVars, cliVars, trip, cmp, tampered, disk, section>>

\* The first n bytes of a stream and the bytes behind them.
Take(stream, n) == SubSeq(stream, 1, n)
Drop(stream, n) == SubSeq(stream, n + 1, Len(stream))

\* The numbers of bytes sock.recv(bufsize) may return when the stream holds
\* len bytes: at least one and at most bufsize, whatever has arrived.
RecvSizes(bufsize, len) == {n \in 1..bufsize : n <= len}

\* read: buf = sock.recv(MAX_PACKAGE_SIZE); no bytes mean the peer has closed
\* and read returns True.
ReadRecvSize ==
    /\ wire.rpc = "recv_size"
    /\ IF wire.stream = <<>>
       THEN /\ wire.closed
            /\ wire' = [wire EXCEPT !.rpc = "returned_true"]
       ELSE \E n \in RecvSizes(MAX_PACKAGE_SIZE, Len(wire.stream)) :
              wire' = [wire EXCEPT
                         !.rpc = "recv_package",
                         !.package_size = from_bytes(Take(wire.stream, n)),
                         !.stream = Drop(wire.stream, n)]
    /\ UNCHANGED <<chainVars, rdVars, srvVars, cliVars, trip, cmp, tampered, disk, section>>

\* read: byte_package = sock.recv(package_size) and
\* package_handler.handle(byte_package).  recv gives no bytes when it is
\* asked for none and when the peer has closed.
ReadRecvPackage ==
    /\ wire.rpc = "recv_package"
    /\ IF wire.package_size = 0 \/ wire.stream = <<>>
       THEN /\ wire.package_size = 0 \/ wire.closed
            /\ wire' = [wire EXCEPT !.rpc = "recv_size",
                                    !.handed = Append(wire.handed, <<>>)]
       ELSE \E n \in RecvSizes(wire.package_size, Len(wire.stream)) :
              wire' = [wire EXCEPT
                         !.rpc = "recv_size",
                         !.handed = Append(wire.handed, Take(wire.stream, n)),
                         !.stream = Drop(wire.stream, n)]
    /\ UNCHANGED <<chainVars, rdVars, srvVars, cliVars, trip, cmp, tampered, disk, section>>

NextWire ==
    WireSend \/ WireSendBig \/ WireClose \/ ReadRecvSize \/ ReadRecvPackage

SpecWire == InitWire /\ [][NextWire]_vars

\* Free callers on every thread.
Next == ClientCall \/ AddStep

Spec == Init /\ [][Next]_vars

\* A single caller, the first thread, and reads at any moment.
SeqCall ==
    \E block \in Universe :
        /\ calls < MaxCalls
        /\ AddCall(1, block)
        /\ calls' = calls + 1
        /\ UNCHANGED todo
        /\ UNCHANGED srvVars

NextSeq == SeqCall \/ AddStep \/ Read

SpecSeq == Init /\ [][NextSeq]_vars

\* A single caller and one read that runs step by step beside it.
NextRead == SeqCall \/ AddStep \/ ReadCalls \/ ReadStep

SpecRead == Init /\ [][NextRead]_vars

\* Scripted workers and reads at any moment.
NextWorkers == WorkerCall \/ AddStep \/ Read

SpecWorkers == InitWorkers /\ [][NextWorkers]_vars

\* A single caller, check() at any moment, and one change behind the chain's
\* back.
NextTamper == SeqCall \/ AddStep \/ ReadCheck \/ AlterBlock \/ RemoveBlock

SpecTamper == Init /\ [][NextTamper]_vars

\* The steps of one thread inside add.
AddOf(t) ==
    \/ AddAcquire(t)
    \/ AddWalk(t)
    \/ AddStore(t)
    \/ AddUpdateHead(t)
    \/ AddReturn(t)

\* Callers on every thread that submit the blocks of one file, so that most
\* calls meet a block that is stored already.
RepeatCall ==
    \E t \in Threads, block \in Range(load_file(FileAB)) :
        /\ calls < MaxCalls
        /\ AddCall(t, block)
        /\ calls' = calls + 1
        /\ UNCHANGED todo
        /\ UNCHANGED srvVars

NextFair == RepeatCall \/ AddStep

\* The threads are scheduled: a thread inside add that can take a step takes
\* one.
SpecFair ==
    /\ Init
    /\ [][NextFair]_vars
    /\ \A t \in Threads : WF_vars(AddOf(t))

\* =================================================================== claims
\* The blocks of the chain: those met when walking from head.
ChainKeys == Reach(map, head)

\* C1: when the block of an add equals, in its five identity fields, a block
\* reachable from head, the add raises DuplicateBlockError and head, the stored
\* blocks and size() are after the step what they were before it.
C1_DuplicateRejected ==
    [][\A t \in Threads :
          (/\ pc[t] = "walk"
           /\ pc'[t] # "walk"
           /\ \E k \in ChainKeys : Eq(map[k], arg[t]))
          => /\ res'[t] = "DuplicateBlockError"
             /\ pc'[t] = "idle"
             /\ head' = head
             /\ map' = map
             /\ size(map') = size(map)]_vars

\* A thread's add raised DuplicateBlockError on a chain that holds blocks.
C1_Witness ==
    \E t \in Threads : res[t] = "DuplicateBlockError" /\ ChainKeys # {}

\* C2: an add that is about to return has stored, under the hash of the stored
\* block, a block that equals the submitted one and whose hash_previous is the
\* head the add read; head is that hash and size() is one more than it was
\* when the add began.
C2_AddStoresBlock ==
    \A t \in Threads :
        pc[t] = "return"
        => /\ hashcode[t] \in DOMAIN map
           /\ Eq(map[hashcode[t]], arg[t])
           /\ map[hashcode[t]].hash_previous = head0[t]
           /\ hash_block(map[hashcode[t]]) = hashcode[t]
           /\ head = hashcode[t]
           /\ size(map) = size0[t] + 1

\* An add is about to return on a chain that held a block before it.
C2_Witness ==
    \E t \in Threads : pc[t] = "return" /\ head0[t] # None /\ size0[t] >= 1

\* C3: the blocks added by concurrent adds form one chain: no two stored
\* blocks share a hash_previous, every hash an add returned stays reachable
\* from head, and a hash returned before an add began is reachable from the
\* block that add stores.
C3_LinearChain ==
    /\ \A k1, k2 \in DOMAIN map :
          k1 # k2 => map[k1].hash_previous # map[k2].hash_previous
    /\ returned \subseteq ChainKeys
    /\ \A t \in Threads :
          pc[t] = "return"
          => seen[t] \subseteq Reach(map, map[hashcode[t]].hash_previous)

\* Two adds overlapped: one is about to return after an earlier add returned,
\* while another thread waits for the lock.
C3_Witness ==
    \E t, u \in Threads :
        /\ pc[t] = "return"
        /\ seen[t] # {}
        /\ pc[u] = "call"

\* The blocks of the chain that carry the file hash.
BlocksOf(file_hash) == {map[k] : k \in {j \in ChainKeys : map[j].hash = file_hash}}

\* C9: for every file hash of the chain, the blocks with that hash have
\* pairwise different ordinals from 0..n-1 and agree on index_all = n and on
\* the filename.
C9_FileSectionsConsistent ==
    \A k \in ChainKeys :
        LET n == map[k].index_all
        IN  \A b1, b2 \in BlocksOf(map[k].hash) :
                /\ b1.index_all = n
                /\ b1.filename = b2.filename
                /\ b1.ordinal \in 0..(n - 1)
                /\ (b1 # b2 => b1.ordinal # b2.ordinal)

\* C10: in every state, also between the store write and the head update,
\* head is None or a key of the store, every block reachable from head has a
\* hash_previous that is None or a key of the store, and each such block is
\* stored under its own hash.
C10_ChainWellFormed ==
    /\ head = None \/ head \in DOMAIN map
    /\ \A k \in ChainKeys :
          /\ map[k].hash_previous = None \/ map[k].hash_previous \in DOMAIN map
          /\ hash_block(map[k]) = k

\* A block is stored and head still names its predecessor.
C10_Witness ==
    \E t \in Threads :
        /\ pc[t] = "update_head"
        /\ hashcode[t] \in DOMAIN map
        /\ head # None
        /\ head # hashcode[t]

\* ------------------------------------------------------- scripted workers
\* Every worker has submitted all its blocks or given up, and is out of add.
AllDone == \A t \in Threads : pc[t] = "idle" /\ todo[t] = <<>>

\* The blocks of a file, compared field by field with a list of blocks.
SameBlocks(blocks, file_blocks) ==
    /\ Len(blocks) = Len(file_blocks)
    /\ \A i \in DOMAIN blocks : Eq(blocks[i], file_blocks[i])

RECURSIVE TotalBlocks(_)
\* The number of blocks the workers of the set were given, all together.
TotalBlocks(workers) ==
    IF workers = {} THEN 0
    ELSE LET t == CHOOSE w \in workers : TRUE
         IN  Len(script[t]) + TotalBlocks(workers \ {t})

\* C4: workers that all submit the same file of n blocks leave, once all have
\* finished, a chain with size() = n, check_hash(file_hash) = (true, n) and
\* get(file_hash) the n blocks in ordinal order.
C4_SameFileOnce ==
    (AllDone /\ \A t \in Threads : script[t] = script[1])
    => LET file_hash == script[1][1].hash
       IN  /\ size(map) = Len(script[1])
           /\ check_hash(head, map, file_hash) = <<TRUE, Len(script[1])>>
           /\ SameBlocks(get(head, map, file_hash), script[1])
           /\ \A i \in DOMAIN script[1] :
                 get(head, map, file_hash)[i].ordinal = i - 1
           /\ (obs.op = "size" => obs.res = Len(script[1]))
           /\ (obs.op = "check_hash" /\ obs.arg = file_hash
                 => obs.res = <<TRUE, Len(script[1])>>)
           /\ (obs.op = "get" /\ obs.arg = file_hash
                 => SameBlocks(obs.res, script[1]))

\* All workers have finished the same file of two blocks, one of them met
\* DuplicateBlockError, and check_hash was called on the result.
C4_Witness ==
    /\ AllDone
    /\ \A t \in Threads : script[t] = script[1]
    /\ Len(script[1]) = 2
    /\ \E t \in Threads : res[t] = "DuplicateBlockError"
    /\ obs.op = "check_hash"
    /\ obs.arg = script[1][1].hash

\* C5: workers that submit pairwise different files leave, once all have
\* finished, a chain whose size() is the sum of the files' block counts and
\* whose check() is (true, number of workers).
C5_DisjointFiles ==
    (AllDone /\ \A t, u \in Threads : t # u => script[t] # script[u])
    => /\ size(map) = TotalBlocks(Threads)
       /\ check(head, map) = <<TRUE, NumThreads>>
       /\ (obs.op = "size" => obs.res = TotalBlocks(Threads))
       /\ (obs.op = "check" => obs.res = <<TRUE, NumThreads>>)

\* All workers have finished pairwise different files, their blocks lie
\* interleaved in the chain, and check was called on the result.
C5_Witness ==
    /\ AllDone
    /\ \A t, u \in Threads : t # u => script[t] # script[u]
    /\ obs.op = "check"
    /\ \E k \in ChainKeys :
          /\ map[k].hash_previous # None
          /\ map[map[k].hash_previous].hash # map[k].hash
          /\ map[map[k].hash_previous].hash_previous # None
          /\ map[map[map[k].hash_previous].hash_previous].hash = map[k].hash

\* ------------------------------------------------------------------ reads
\* The file hashes of the blocks added so far.
AddedHashes == {b.hash : b \in added}

\* C6 as stated: after any sequence of adds check() is (true, k), k the number
\* of file hashes added.
C6_CheckAlwaysTrue ==
    obs.op = "check" => obs.res = <<TRUE, Cardinality(AddedHashes)>>

\* C6, amended: check() is (v, k) with k the number of file hashes added and v
\* true exactly when check_hash holds for each of them.
C6_CheckCountsFiles ==
    obs.op = "check"
    => /\ obs.res[2] = Cardinality(AddedHashes)
       /\ obs.res[1] = (\A h \in AddedHashes : check_hash(head, map, h)[1])

\* check() was called while a file lacked a block, and said (false, k), k >= 1.
C6_Witness ==
    /\ obs.op = "check"
    /\ obs.res[1] = FALSE
    /\ obs.res[2] >= 1
    /\ \E b \in added : Cardinality({c \in added : c.hash = b.hash}) < b.index_all

\* The blocks the collection walk gathers for a file hash.
Collected(file_hash) == get_blocks_for_hash(head, map, file_hash)

\* A valid section: not empty, no ordinal twice, one index_all, one filename.
ValidSection(blocks) ==
    /\ blocks # <<>>
    /\ \A i, j \in DOMAIN blocks :
          /\ (i # j => blocks[i].ordinal # blocks[j].ordinal)
          /\ blocks[i].index_all = blocks[j].index_all
          /\ blocks[i].filename = blocks[j].filename

\* The chunks of a valid section in ascending ordinal order: the chunk at
\* place i belongs to the block with i - 1 blocks of smaller ordinal.
ChunksInOrder(blocks) ==
    [i \in DOMAIN blocks |->
        LET j == CHOOSE n \in DOMAIN blocks :
                    Cardinality({l \in DOMAIN blocks :
                                    blocks[l].ordinal < blocks[n].ordinal}) = i - 1
        IN  blocks[j].chunk]

\* The hash of the content of a valid section.
SectionHash(blocks) == Sha256(Concat(ChunksInOrder(blocks)))

\* C7 as stated: (true, count) for a valid section whose chunk hash is the
\* hash asked for, and (false, 0) in every other case.
C7_FalseMeansZero ==
    obs.op = "check_hash"
    => IF ValidSection(Collected(obs.arg))
          /\ SectionHash(Collected(obs.arg)) = obs.arg
       THEN obs.res = <<TRUE, Len(Collected(obs.arg))>>
       ELSE obs.res = <<FALSE, 0>>

\* C7, amended: (true, count) for a valid section whose chunk hash is the hash
\* asked for; (false, 0) when no block is collected or the collected blocks
\* are no valid section; (false, count) with the number of collected blocks
\* when they are a valid section whose chunk hash differs.
C7_CheckHashResult ==
    obs.op = "check_hash"
    => IF ~ValidSection(Collected(obs.arg)) THEN obs.res = <<FALSE, 0>>
       ELSE /\ Len(Collected(obs.arg)) >= 1
            /\ obs.res = <<SectionHash(Collected(obs.arg)) = obs.arg,
                           Len(Collected(obs.arg))>>

\* check_hash was called for a file of which one block is in the chain and
\* another is not, and said (false, 1).
C7_Witness ==
    /\ obs.op = "check_hash"
    /\ obs.res = <<FALSE, 1>>
    /\ \E b \in added : b.hash = obs.arg /\ b.index_all = 2

\* The files whose blocks callers submit.
InputFiles == {FileAB, FileCopy, FileB}

\* Every block added so far is a block load_file made of one of the files.
OnlyFileBlocks == \A b \in added : \E f \in InputFiles : b \in Range(load_file(f))

\* C8: on a chain of blocks of files, for a file all of whose blocks were
\* added get(h) is the list of those blocks in ordinal order, ordinals 0..n-1,
\* and their chunks hash to h; for a hash without a block in the chain get(h)
\* is empty.
C8_GetReturnsFile ==
    (obs.op = "get" /\ OnlyFileBlocks)
    => /\ \A f \in InputFiles :
             (Range(load_file(f)) \subseteq added /\ obs.arg = load_file(f)[1].hash)
             => /\ SameBlocks(obs.res, load_file(f))
                /\ \A i \in DOMAIN obs.res : obs.res[i].ordinal = i - 1
                /\ Sha256(Concat(Chunks(obs.res))) = obs.arg
       /\ ((\A b \in added : b.hash # obs.arg) => obs.res = <<>>)

\* ------------------------------------------------------- concurrent reads
\* C11: a check, check_hash or get that ran beside adds returns what it would
\* return on the chain as it stood at one instant between its call and its
\* return.
C11_ReadAtOneInstant ==
    rd.pc = "done" => rd.res \in lin

\* ------------------------------------------------------------- the server
\* C12: after stop() on a running server, whatever connections came and went
\* before, the server thread leaves its accept loop with every accepted
\* connection and the listening socket closed: once the thread has ended
\* after stop(), all these sockets are closed.
C12_StopClosesEverything ==
    (stopped /\ apc \in {"done", "crashed"})
    => /\ listener = "closed"
       /\ \A i \in DOMAIN clients : sock[clients[i]] = "closed"

\* A worker waits in recv for the next frame of a connection that is open at
\* both ends and has nothing in flight.
Waiting(c) ==
    /\ wpc[c] = "read"
    /\ sock[c] = "open"
    /\ peer[c] = "open"
    /\ inq[c] = <<>>

\* C13: every worker ends once its peer has closed or the shutdown flag is
\* set, also one that waits for the next frame when the flag is set.  Only the
\* server thread wakes such a worker, so once the flag is set and the server
\* thread has ended no worker is left waiting.
C13_NoWorkerLeftWaiting ==
    (stopped /\ apc \in {"done", "crashed"})
    => \A c \in Threads : ~Waiting(c)

\* C14: the step in which a worker meets a frame it cannot handle closes the
\* socket of that connection and ends the worker, and leaves the server
\* thread, the other workers and the chain as they are.
C14_BadFrameClosesConnection ==
    [][\A c \in Threads :
          (/\ wpc[c] = "read"
           /\ inq[c] # <<>>
           /\ inq'[c] = Tail(inq[c])
           /\ last'[c].raised # "none")
          => /\ wpc'[c] \in {"done", "crashed"}
             /\ sock'[c] = "closed"
             /\ apc' = apc
             /\ \A d \in Threads \ {c} : wpc'[d] = wpc[d]
             /\ head' = head
             /\ map' = map]_vars

\* ------------------------------------------------------------ the protocol
\* The frame the worker of the connection handled last: its direction bit,
\* its id bits and its object.
LastMode(c) == (last[c].frame[1] \div 128) * 128
LastId(c) == last[c].frame[1] % 128
LastObject(c) == pickle_loads(last[c].frame[2])

\* The worker has handled a frame, and the handler it called has returned.
Handled(c) == last[c].frame # <<>> /\ wpc[c] # "add"

\* The log level of a LOG_TEXT package and the text it carries.
LevelOf(package) == pickle_loads(package.payload).log_level
MessageOf(package) == pickle_loads(package.payload).message

\* A list of one LOG_TEXT package for a client, of the given level.
OneLog(packages, log_level) ==
    /\ Len(packages) = 1
    /\ packages[1].package_mode = CLIENT_MODE
    /\ packages[1].package_id = LOG_TEXT
    /\ LevelOf(packages[1]) = log_level

\* C15 as stated: handle raises PackageHandleError and calls no handler when
\* the id bits are no known id and when the direction bit is not the
\* handler's.
C15_HandleErrorForBoth ==
    \A c \in Threads :
        (/\ last[c].frame # <<>>
         /\ \/ LastId(c) \notin PackageId \cup {FULL_CHECK}
            \/ LastMode(c) # SERVER_MODE)
        => /\ last[c].raised = "PackageHandleError"
           /\ last[c].invoked = <<>>

\* C15, amended: handle calls no handler and raises PackageCreationError when
\* the id bits are no id of PackageId, whatever the direction bit, and
\* PackageHandleError when the id is one of PackageId and the direction bit is
\* not the handler's.
C15_HandleRaises ==
    \A c \in Threads :
        last[c].frame # <<>>
        => /\ LastId(c) \notin PackageId
              => /\ last[c].raised = "PackageCreationError"
                 /\ last[c].invoked = <<>>
           /\ (LastId(c) \in PackageId /\ LastMode(c) # SERVER_MODE)
              => /\ last[c].raised = "PackageHandleError"
                 /\ last[c].invoked = <<>>

\* A worker met a frame of an unknown id after it had answered a request.
C15_Witness ==
    \E c \in Threads :
        /\ last[c].frame # <<>>
        /\ LastId(c) = UnknownId
        /\ last[c].raised = "PackageCreationError"
        /\ before[c].ret # <<>>

\* The level handle_full_check is to answer with for a result of check().
FullCheckLevel(result) ==
    IF result[1] THEN "INFO" ELSE IF result[2] = 0 THEN "ERROR" ELSE "WARNING"

\* C16: a FULL_CHECK package for the server, id 5, is accepted by the server's
\* factory and handler and answered with one LOG_TEXT package, of level INFO
\* when check() is (true, k), ERROR when it is (false, 0), WARNING otherwise.
C16_FullCheckAnswered ==
    \A c \in Threads :
        (last[c].frame # <<>> /\ last[c].frame[1] = SERVER_MODE + FULL_CHECK)
        => /\ last[c].raised = "none"
           /\ last[c].invoked = <<FULL_CHECK>>
           /\ OneLog(last[c].ret, FullCheckLevel(check(head, map)))

\* C17: the HASH_CHECK handler returns one LOG_TEXT package for the client:
\* INFO with the number of blocks when check_hash(h) is true, WARNING
\* otherwise.
C17_HashCheckAnswer ==
    \A c \in Threads :
        (Handled(c) /\ last[c].frame[1] = SERVER_MODE + HASH_CHECK)
        => IF check_hash(head, map, LastObject(c))[1]
           THEN /\ OneLog(last[c].ret, "INFO")
                /\ MessageOf(last[c].ret[1])[3]
                     = check_hash(head, map, LastObject(c))[2]
           ELSE OneLog(last[c].ret, "WARNING")

\* HASH_CHECK for a file whose two blocks are in the chain was answered.
C17_Witness ==
    \E c \in Threads :
        /\ Handled(c)
        /\ last[c].frame[1] = SERVER_MODE + HASH_CHECK
        /\ check_hash(head, map, LastObject(c)) = <<TRUE, 2>>
        /\ last[c].ret # <<>>

\* C18: the GET_FILE handler returns one LOG_TEXT WARNING and nothing else when
\* get(h) is empty, and otherwise one SEND_FILE package for the client per
\* block of get(h), with ordinals that strictly ascend, and nothing else.
C18_GetFileAnswer ==
    \A c \in Threads :
        (Handled(c) /\ last[c].frame[1] = SERVER_MODE + GET_FILE)
        => LET blocks == get(head, map, LastObject(c))
               packages == last[c].ret
           IN  IF blocks = <<>> THEN OneLog(packages, "WARNING")
               ELSE /\ Len(packages) = Len(blocks)
                    /\ \A i \in DOMAIN packages :
                          /\ packages[i].package_mode = CLIENT_MODE
                          /\ packages[i].package_id = SEND_FILE
                          /\ pickle_loads(packages[i].payload).ordinal
                               = blocks[i].ordinal
                          /\ pickle_loads(packages[i].payload).chunk
                               = blocks[i].chunk
                    /\ \A i, j \in DOMAIN packages :
                          i < j => pickle_loads(packages[i].payload).ordinal
                                   < pickle_loads(packages[j].payload).ordinal

\* The handler of a SEND_FILE package for the server has returned.
AddHandled(c) ==
    /\ Handled(c)
    /\ last[c].frame[1] = SERVER_MODE + SEND_FILE
    /\ last[c].outcome # "none"

\* C19 as stated: the SEND_FILE handler returns no package, whether add
\* returned or raised DuplicateBlockError.
C19_AddAnswersNothing ==
    \A c \in Threads : AddHandled(c) => last[c].ret = <<>>

\* C19, amended: the SEND_FILE handler returns no package when add raised
\* DuplicateBlockError and when, after add, check_hash of the block's file is
\* false; when it is true, the handler returns one LOG_TEXT INFO package with
\* the number of blocks.
C19_AddAnswer ==
    \A c \in Threads :
        AddHandled(c)
        => IF last[c].outcome = "DuplicateBlockError" THEN last[c].ret = <<>>
           ELSE IF check_hash(head, map, LastObject(c).hash)[1]
           THEN /\ OneLog(last[c].ret, "INFO")
                /\ MessageOf(last[c].ret[1])[2]
                     = check_hash(head, map, LastObject(c).hash)[2]
           ELSE last[c].ret = <<>>

\* The block that completed its file was added and answered.
C19_Witness ==
    \E c \in Threads :
        /\ AddHandled(c)
        /\ last[c].outcome = "returned"
        /\ check_hash(head, map, LastObject(c).hash) = <<TRUE, 2>>
        /\ last[c].ret # <<>>

\* C20 as stated: a SEND_FILE block that is in the chain already is answered
\* with a LOG_TEXT WARNING package, and the connection stays open.
C20_DuplicateReported ==
    \A c \in Threads :
        (AddHandled(c) /\ last[c].outcome = "DuplicateBlockError")
        => /\ OneLog(last[c].ret, "WARNING")
           /\ sock[c] = "open"
           /\ wpc[c] \in {"loop", "read"}

\* C20, amended: a SEND_FILE block that is in the chain already is answered
\* with no package (the warning is logged on the server only), and the
\* connection stays open: the worker goes on reading as long as the client
\* does not close, and the chain is as it was.
C20_DuplicateAbsorbed ==
    \A c \in Threads :
        (AddHandled(c) /\ last[c].outcome = "DuplicateBlockError")
        => /\ last[c].ret = <<>>
           /\ peer[c] = "open" => (sock[c] = "open" /\ wpc[c] \in {"loop", "read"})
           /\ \E k \in ChainKeys : Eq(map[k], LastObject(c))

\* After a duplicate block the same connection had a request answered.
C20_Witness ==
    \E c \in Threads :
        /\ before[c].outcome = "DuplicateBlockError"
        /\ Handled(c)
        /\ last[c].frame[1] = SERVER_MODE + HASH_CHECK
        /\ last[c].ret # <<>>

\* ------------------------------------------------------------ round trips
\* C24: for every id of PackageId, either factory mode and every object,
\* create_from_bytes of the raw bytes of create_from_object(id, object) gives
\* a package of that id and that mode whose payload loads to the object.
C24_RoundTrip ==
    trip.pc = "parsed" =>
        /\ trip.package_id \in PackageId
        /\ trip.back.raised = "none"
        /\ trip.back.package.package_id = trip.package_id
        /\ trip.back.package.package_mode = trip.package_mode
        /\ pickle_loads(trip.back.package.payload) = trip.object

C24_Witness ==
    /\ trip.pc = "parsed"
    /\ trip.package_mode = SERVER_MODE
    /\ trip.package_id = SEND_FILE
    /\ trip.object = load_file(FileAB)[1]

\* ------------------------------------------------------- block equality
\* C30: two blocks are equal exactly when they agree on hash, index_all,
\* ordinal, chunk and filename, whatever their hash_previous; equal blocks
\* have equal __hash__ values; blocks that differ in filename are unequal.
C30_BlockEquality ==
    cmp.pc = "done" =>
        /\ cmp.eq <=> /\ cmp.a.hash = cmp.b.hash
                      /\ cmp.a.index_all = cmp.b.index_all
                      /\ cmp.a.ordinal = cmp.b.ordinal
                      /\ cmp.a.chunk = cmp.b.chunk
                      /\ cmp.a.filename = cmp.b.filename
        /\ cmp.eq => cmp.hash_a = cmp.hash_b
        /\ cmp.a.filename # cmp.b.filename => ~cmp.eq

C30_Witness ==
    /\ cmp.pc = "done"
    /\ cmp.eq
    /\ cmp.a.hash_previous # cmp.b.hash_previous
    /\ cmp.hash_a = cmp.hash_b

\* -------------------------------------------------------- tampered chains
\* C27: once the content of a block reachable from head was altered, or a
\* block that head or a hash_previous refers to is missing from the store,
\* check() returns (False, 0).
C27_TamperDetected ==
    (tampered # "no" /\ obs.op = "check") => obs.res = <<FALSE, 0>>

C27_Witness ==
    /\ tampered = "altered"
    /\ obs.op = "check"
    /\ Cardinality(DOMAIN map) > 1
    /\ map[head].hash_previous # None
    /\ hash_block(map[head]) = head

\* ------------------------------------------------------------------- size
\* C28: for the store in memory and for the store on disk, size() returns the
\* number of add calls that completed; on a fresh chain it returns 0.
C28_SizeCountsBlocks ==
    disk.sized # <<>> => disk.sized[1] = disk.added

\* ---------------------------------------------------------------- framing
\* C21: however the transport splits the bytes across recv calls, read hands
\* the handler the bytes of each package that was sent, one package per
\* call and in the order sent, and never a part of a frame.
C21_FramesHandedWhole ==
    /\ Len(wire.handed) <= Len(wire.sent)
    /\ \A i \in DOMAIN wire.handed : wire.handed[i] = wire.sent[i]

RECURSIVE Framed(_)
\* The bytes of the frames of the given packages, one behind the other.
Framed(raws) ==
    IF raws = <<>> THEN <<>>
    ELSE to_bytes(Len(Head(raws))) \o Head(raws) \o Framed(Tail(raws))

\* C22: send of a package of more than 65,535 bytes writes no byte and logs
\* an error; the bytes written to the connection are the frames of the other
\* packages, whole and in the order of their sends.
C22_OversizedDropped ==
    /\ wire.written = Framed(wire.sent)
    /\ wire.errors = wire.overflows

C22_Witness ==
    /\ wire.overflows = 1
    /\ wire.errors = 1
    /\ Len(wire.sent) = 2
    /\ wire.written = Framed(wire.sent)

\* ------------------------------------------------- requests and replies
\* The raw bytes of the given packages, in order.
Raws(packages) == [i \in DOMAIN packages |-> raw(packages[i])]

\* What the worker of connection c wrote in answer to its n-th request.
Written(c, n) ==
    LET OfRequest(e) == e[1] = n
        entries == SelectSeq(outlog[c], OfRequest)
    IN  [i \in DOMAIN entries |-> entries[i][2]]

\* C23: on each connection the worker handles the requests in the order the
\* client sent them, and it writes the whole reply of one request, package by
\* package in the order the handler returned them, before it takes the next
\* request: no package of an earlier request follows one of a later request.
\* Only a socket closed under the worker cuts a reply short, and then the
\* worker ends.
C23_RepliesInRequestOrder ==
    \A c \in Threads :
        /\ Taken(c) > 0 => last[c].frame = sentlog[c][Taken(c)]
        /\ Taken(c) > 1 => before[c].frame = sentlog[c][Taken(c) - 1]
        /\ \A i, j \in DOMAIN outlog[c] :
               i < j => outlog[c][i][1] <= outlog[c][j][1]
        /\ IF wpc[c] = "done"
           THEN /\ Len(Written(c, Taken(c))) <= Len(last[c].ret)
                /\ \A i \in DOMAIN Written(c, Taken(c)) :
                       Written(c, Taken(c))[i] = raw(last[c].ret[i])
           ELSE Written(c, Taken(c)) \o Raws(reply[c]) = Raws(last[c].ret)
        /\ Taken(c) > 1 => Written(c, Taken(c) - 1) = Raws(before[c].ret)

\* The second request was answered with one package and the third with two.
C23_Witness ==
    \E c \in Threads :
        /\ Taken(c) = 3
        /\ wpc[c] = "loop"
        /\ Len(Written(c, 2)) = 1
        /\ Len(Written(c, 3)) = 2
        /\ Written(c, 3)[1] # Written(c, 3)[2]

\* ------------------------------------------------------ the reading thread
\* C29: once the server has closed a client's connection, the client's
\* reading thread returns and running() is false from then on.
C29_ReaderExits ==
    \A c \in Threads : (sock[c] = "closed") ~> [](~running(c))

\* The server closed the connection of a client that had read an answer and
\* did not close its own side; the thread has returned.
C29_Witness ==
    \E c \in Threads :
        /\ sock[c] = "closed"
        /\ peer[c] = "open"
        /\ cread[c] > 0
        /\ ~running(c)

\* ---------------------------------------------------------------- add_file
\* The chain holds the file the first client sent, whole, and nothing else.
StoredWhole ==
    /\ check_hash(head, map, pickle_loads(sentlog[FirstClient][1][2]).hash)
           = <<TRUE, Len(sentlog[FirstClient])>>
    /\ check(head, map) = <<TRUE, 1>>

GetFileDone ==
    /\ plan[FirstClient] = <<>>
    /\ inq[FirstClient] = <<>>
    /\ last[FirstClient].invoked = <<GET_FILE>>
    /\ wpc[FirstClient] \in {"loop", "read"}
    /\ cread[FirstClient] = Len(outlog[FirstClient])

\* The name of the file the answer's blocks carry.
GetFileName ==
    pickle_loads(outlog[FirstClient][Len(outlog[FirstClient])][2][2]).filename

\* C25: after all blocks of a file were added, get_file of the file's hash
\* leaves a local file of the name the answer's blocks carry whose bytes are
\* those of the original file, the chunks in ordinal order, none missing and
\* none repeated.
C25_GetFileRestoresFile ==
    GetFileDone =>
        /\ GetFileName \in DOMAIN local_files[FirstClient]
        /\ local_files[FirstClient][GetFileName] = Concat(FileAB.chunks)

\* ------------------------------------------------------ the collection walk
RECURSIVE CollectToFirstIndexAll(_, _, _, _)
\* The walk as the claim words it: blocks of the file hash are gathered from
\* the head along hash_previous until their number is the index_all of the block
\* gathered first, or the chain ends.
CollectToFirstIndexAll(m, start, file_hash, blocks) ==
    IF chain_get(m, start) = <<>> THEN blocks
    ELSE LET block == chain_get(m, start)[1]
             found == IF block.hash = file_hash THEN Append(blocks, block)
                      ELSE blocks
         IN  IF found # <<>> /\ found[1].index_all = Len(found)
             THEN found
             ELSE CollectToFirstIndexAll(m, block.hash_previous, file_hash,
                                         found)

\* C31: for every file hash, the walk of check_hash and get gathers the
\* blocks of that hash from head along hash_previous and stops as soon as it
\* has as many as the index_all of the first block it gathered, or at the end
\* of the chain.
C31_WalkStopsAtFirstIndexAll ==
    \A h \in HashArgs :
        get_blocks_for_hash(head, map, h)
            = CollectToFirstIndexAll(map, head, h, <<>>)

\* ------------------------------------------------------------ add returns
RECURSIVE WalkVisits(_, _, _)
\* The number of blocks the loop of add reads before it raises or ends.
WalkVisits(m, start, block) ==
    IF chain_get(m, start) = <<>> THEN 0
    ELSE IF Eq(chain_get(m, start)[1], block) THEN 1
    ELSE 1 + WalkVisits(m, chain_get(m, start)[1].hash_previous, block)

\* C32: with the threads scheduled, every call of add returns or raises
\* DuplicateBlockError and leaves the lock free for the calls that wait, also
\* after another thread's add has raised; the duplicate walk of an add reads
\* at most size() blocks.
C32_AddEnds ==
    /\ [](\A t \in Threads :
             pc[t] = "walk" =>
                 WalkVisits(map, new_block[t].hash_previous, new_block[t])
                     <= size(map))
    /\ \A t \in Threads :
           (pc[t] = "call") ~>
               (pc[t] = "idle" /\ t \notin lock
                /\ res[t] \in {"returned", "DuplicateBlockError"})

\* One thread's add has raised DuplicateBlockError and another thread has
\* taken the lock since.
C32_Witness ==
    \E t, u \in Threads :
        /\ pc[t] = "idle"
        /\ res[t] = "DuplicateBlockError"
        /\ pc[u] = "walk"
        /\ lock = {u}

\* ------------------------------------------------- generate_file_hash alone
\* The longest list of blocks handed to generate_file_hash.
MaxSection == 3

\* generate_file_hash is about to be called with a list of at most
\* MaxSection blocks, in any order and with repetitions.
InitSections ==
    /\ InitCallers
    /\ \E n \in 0..MaxSection : \E blocks \in [1..n -> Universe] :
            section = [NoSection EXCEPT !.pc = "given", !.given = blocks,
                                        !.blocks = blocks]
    /\ IdleTrip
    /\ IdleCmp
    /\ IdleStore
    /\ IdleDisk
    /\ IdleWire

\* generate_file_hash(blocks): the result or the error; blocks.sort has put
\* the caller's list in ordinal order when no error is raised.
GenerateFileHash ==
    /\ section.pc = "given"
    /\ LET result == generate_file_hash(section.blocks)
       IN  section' = [section EXCEPT
                !.pc = "done",
                !.result = result,
                !.blocks = IF result = BlockSectionInconsistentError
                           THEN section.blocks
                           ELSE SortByOrdinal(section.blocks)]
    /\ UNCHANGED <<chainVars, rdVars, srvVars, cliVars, trip, cmp, tampered, disk, wire>>

NextSections == GenerateFileHash

SpecSections == InitSections /\ [][NextSections]_vars

\* The lists that hold the blocks of a list in another order.
Reorderings(blocks) ==
    {[i \in DOMAIN blocks |-> blocks[p[i]]] :
        p \in {f \in [DOMAIN blocks -> DOMAIN blocks] :
                    \A i, j \in DOMAIN blocks : i # j => f[i] # f[j]}}

\* The list is empty, two of its blocks share an ordinal, or two of its
\* blocks disagree on file hash, index_all or filename.
Inconsistent(blocks) ==
    \/ blocks = <<>>
    \/ \E i, j \in DOMAIN blocks : i # j /\ blocks[i].ordinal = blocks[j].ordinal
    \/ \E i, j \in DOMAIN blocks :
          \/ blocks[i].hash # blocks[j].hash
          \/ blocks[i].index_all # blocks[j].index_all
          \/ blocks[i].filename # blocks[j].filename

\* C33: generate_file_hash raises BlockSectionInconsistentError exactly for an
\* empty list, a repeated ordinal or blocks that disagree on file hash,
\* index_all or filename; otherwise it gives the hash of the chunks in
\* ascending ordinal order, the same for every reordering of the list.
C33_FileHashOfSection ==
    section.pc = "done" =>
        /\ (section.result = BlockSectionInconsistentError)
                <=> Inconsistent(section.given)
        /\ ~Inconsistent(section.given) =>
              /\ section.result = SectionHash(section.given)
              /\ \A q \in Reorderings(section.given) :
                    generate_file_hash(q) = section.result

\* The hash was made of FileAB's blocks given last block first.
C33_Witness ==
    /\ section.pc = "done"
    /\ section.given = <<load_file(FileAB)[2], load_file(FileAB)[1]>>
    /\ section.result = Sha256(Concat(FileAB.chunks))

\* C34: in every state concurrent adds reach, no two blocks reachable from
\* head are equal in file hash, index_all, ordinal, chunk and filename.
C34_NoEqualBlocksInChain ==
    \A k1, k2 \in Reach(map, head) : k1 # k2 => ~Eq(map[k1], map[k2])

\* One thread's add raised DuplicateBlockError and another thread's add
\* returned, on a chain of two blocks.
C34_Witness ==
    \E t, u \in Threads :
        /\ res[t] = "DuplicateBlockError"
        /\ res[u] = "returned"
        /\ Cardinality(Reach(map, head)) >= 2

\* C35: whenever a concurrent reader calls size(), the number it gets is the
\* number of blocks reachable from head along hash_previous.
C35_SizeIsChainLength ==
    obs.op = "size" => obs.res = Cardinality(Reach(map, head))

\* ------------------------------------------- clients that add the same file
\* Every client connects and calls add_file with the file ab.txt; the server
\* runs on.
InitSubmit ==
    /\ InitChain
    /\ todo = [t \in Threads |-> <<>>]
    /\ script = todo
    /\ abortOnDup = FALSE
    /\ plan = [c \in Threads |-> add_file(FileAB)]
    /\ InitExt

NextSubmit ==
    \/ ServerListen
    \/ Accept
    \/ AcceptCheck
    \/ \E c \in Threads :
          \/ Connect(c)
          \/ PlanSend(c)
          \/ HandleClientLoop(c)
          \/ HandleClientAdd(c)
          \/ HandleClientAdded(c)
          \/ HandleClientSend(c)
    \/ AddStep

SpecSubmit == InitSubmit /\ [][NextSubmit]_vars

\* The requests the SEND_FILE handler has answered with a notice: those whose
\* notice the worker has written and the one it is about to write.
Noticed ==
    UNION {{<<c, outlog[c][i][1]>> : i \in DOMAIN outlog[c]} : c \in Threads}
        \cup {<<c, Taken(c)>> : c \in {d \in Threads : reply[d] # <<>>}}

\* C36: of the blocks of one file that several connections submit, at most
\* one is answered with the notice that all blocks were added, and it is the
\* block whose add completed the file (the newest block of the chain once the
\* file is complete).
C36_OneNoticePerFile ==
    /\ Cardinality(Noticed) <= 1
    /\ \A n \in Noticed :
          /\ Cardinality(ChainKeys) = Len(FileAB.chunks)
          /\ Eq(pickle_loads(sentlog[n[1]][n[2]][2]), map[head])

\* ------------------------------------------------- reads beside a connection
\* One client that adds the file ab.txt and then asks for its hash, for the
\* file and for a full check, and a thread that calls get, check_hash, check
\* and size at any moment.
InitReaders ==
    /\ InitChain
    /\ todo = [t \in Threads |-> <<>>]
    /\ script = todo
    /\ abortOnDup = FALSE
    /\ plan = [c \in Threads |->
                 IF c = FirstClient
                 THEN add_file(FileAB)
                      \o <<raw(create_from_object(SERVER_MODE, HASH_CHECK,
                                                  Sha256(Concat(FileAB.chunks))))>>
                      \o get_file(Sha256(Concat(FileAB.chunks)))
                      \o <<Frame(SERVER_MODE + FULL_CHECK, None)>>
                 ELSE <<>>]
    /\ InitExt

NextReaders ==
    \/ ServerListen
    \/ Accept
    \/ AcceptCheck
    \/ Connect(FirstClient)
    \/ Disconnect(FirstClient)
    \/ PlanSend(FirstClient)
    \/ HandleClient(FirstClient)
    \/ AddStep
    \/ Read

SpecReaders == InitReaders /\ [][NextReaders]_vars

\* The package ids of the requests that read the chain.
ReadIds == {HASH_CHECK, GET_FILE, FULL_CHECK}

\* C37: a step in which get, check_hash, check or size returns, or in which
\* the handler of a HASH_CHECK, GET_FILE or FULL_CHECK package returns,
\* leaves head and the stored blocks as they were.
C37_ReadsChangeNothing ==
    [][(\/ obs'.op # "none" /\ (obs'.op # obs.op \/ obs'.arg # obs.arg)
        \/ \E c \in Threads :
              /\ last'[c] # last[c] \/ inq'[c] # inq[c]
              /\ wpc[c] = "read"
              /\ Len(last'[c].invoked) = 1
              /\ last'[c].invoked[1] \in ReadIds)
       => head' = head /\ map' = map]_vars

\* Two blocks are stored; get has returned them to a caller and the GET_FILE
\* handler has returned them to the client.
C37_Witness ==
    /\ obs.op = "get"
    /\ Len(obs.res) = 2
    /\ last[FirstClient].invoked = <<GET_FILE>>
    /\ Len(last[FirstClient].ret) = 2

\* C38: once the shutdown flag is set the server thread starts no worker and
\* no frame of a connection without a worker is handled; and the connection
\* the server thread accepts after the flag is set, the one stop() itself
\* made, is closed when the server thread has ended.
C38_NoWorkerAfterStop ==
    /\ [][stopped =>
            \A c \in Threads :
                wpc[c] = "none" =>
                    /\ wpc'[c] = "none"
                    /\ last'[c] = last[c]
                    /\ Len(inq'[c]) >= Len(inq[c])]_vars
    /\ []((stopped /\ apc \in {"done", "crashed"} /\ sock[Dial] # "none")
            => sock[Dial] = "closed")

\* -------------------------------------------------- a file asked for twice
\* What the first client's working directory holds under the name ab.txt
\* before the client asks: nothing, or bytes of an earlier time.
EarlierContents == {<<>>, <<99>>}

\* Two clients of a server that runs on.  The first adds the file ab.txt and
\* asks for it twice by its hash; the second adds copy.txt, a file of the
\* same content.
InitAppend ==
    /\ InitChain
    /\ todo = [t \in Threads |-> <<>>]
    /\ script = todo
    /\ abortOnDup = FALSE
    /\ plan = [c \in Threads |->
                 IF c = FirstClient
                 THEN add_file(FileAB)
                      \o get_file(Sha256(Concat(FileAB.chunks)))
                      \o get_file(Sha256(Concat(FileAB.chunks)))
                 ELSE IF c = SecondClient THEN add_file(FileCopy)
                 ELSE <<>>]
    /\ InitExt

\* The working directory of a client that has not connected yet holds a file
\* ab.txt of an earlier time.
OlderFile(c) ==
    /\ peer[c] = "none"
    /\ DOMAIN local_files[c] = {}
    /\ \E e \in EarlierContents \ {<<>>} :
          local_files' = [local_files EXCEPT ![c] =
                             AppendFile(local_files[c], FileAB.filename, e)]
    /\ UNCHANGED <<chainVars, rdVars, srvVars, pureVars>>
    /\ UNCHANGED <<reply, outlog, sentlog, cpc, cread, plan>>

NextAppend ==
    \/ ServerListen
    \/ Accept
    \/ AcceptCheck
    \/ OlderFile(FirstClient)
    \/ \E c \in {FirstClient, SecondClient} :
          \/ Connect(c)
          \/ PlanSend(c)
          \/ HandleClientLoop(c)
          \/ HandleClientAdd(c)
          \/ HandleClientAdded(c)
          \/ HandleClientAsk(c)
          \/ HandleClientSend(c)
          \/ ClientReadPackage(c)
    \/ AddStep

SpecAppend == InitAppend /\ [][NextAppend]_vars

\* The bytes of `earlier` are the first bytes of `later`.
StartsWith(later, earlier) ==
    /\ Len(earlier) <= Len(later)
    /\ SubSeq(later, 1, Len(earlier)) = earlier

\* C39: a client's file is never cut or rewritten, only appended to; and when
\* the answers to two get_file requests for the hash of ab.txt are written,
\* the file of the name the answers carry holds what it held before followed
\* by the bytes of ab.txt twice.
C39_GetFileAppends ==
    /\ [][\A c \in Threads : \A f \in DOMAIN local_files[c] :
             /\ f \in DOMAIN local_files'[c]
             /\ StartsWith(local_files'[c][f], local_files[c][f])]_vars
    /\ [](GetFileDone =>
            /\ GetFileName \in DOMAIN local_files[FirstClient]
            /\ \E e \in (IF GetFileName = FileAB.filename
                         THEN EarlierContents ELSE {<<>>}) :
                  local_files[FirstClient][GetFileName]
                      = e \o Concat(FileAB.chunks) \o Concat(FileAB.chunks))

====
